---- MODULE Spec2Model ----
(***************************************************************************)
(* A model of the Mnemosine backend: the agent pool (core/agent_pool.py),  *)
(* the response cache (core/cache_service.py), token authentication        *)
(* (core/security/auth.py, services/user.py) and the prompt/conversation   *)
(* request handlers (api/v1/agent.py, core/agents/simple_agent.py).        *)
(*                                                                         *)
(* Strings that the code inspects (model names) are sequences of tokens,   *)
(* so that "startswith", "contains ':'" and concatenation are computed.    *)
(* An Optional value is a sequence of length at most one: << >> is None    *)
(* and <<x>> is the value x.                                               *)
(***************************************************************************)
EXTENDS Integers, Sequences, FiniteSets, TLC

\* ------------------------------------------------------------------ bounds
NTasks == 2
MaxTime == 1
MaxCalls == 3
MaxCacheTime == 1
MaxAuthTime == 3

\* settings.ACCESS_TOKEN_EXPIRE_MINUTES (settings.py line 29), scaled down to
\* two units of the clock.
AccessTokenExpire == 2

\* max_length of sanitize_prompt (sanitize.py line 40).
MaxPromptLength == 10000

\* The longest model name validate_model_name accepts (sanitize.py line 94).
MaxModelNameLen == 100

\* The capacities a pool is constructed with, and the thresholds a sweep is
\* called with.
PoolSizes == {0, 1, 2}

\* The capacity of the global pool (agent_pool.py line 112), scaled down.
GlobalPoolSize == 2
IdleArgs == {0, 1}

Tasks == 1..NTasks

\* The caller of the cache service in SpecCache: its calls follow one
\* another, and the clock may advance between the clock read of a call and
\* its locked body.  Callers that interleave at the cache lock are the
\* request tasks of Spec.
CacheTasks == {1}

None == << >>
Some(x) == <<x>>
NoTask == 0
NoAgent == 0

\* ------------------------------------------------- passwords (passlib)
\* A bcrypt hash is a digest of the password, never the password itself;
\* verification recomputes the digest (auth.py lines 31-38).
get_password_hash(password) == [scheme |-> "bcrypt", digest_of |-> password]

verify_password(plain_password, hashed_password) ==
    hashed_password = get_password_hash(plain_password)

\* ---------------------------------------------------------------- settings
\* The API keys are Optional[str]; the code only tests their truth value, so
\* a key is modelled by that truth value (FALSE: None or the empty string).
Configs ==
    { [GEMINI_API_KEY |-> g, OPENAI_API_KEY |-> o, ANTHROPIC_API_KEY |-> FALSE,
       DEFAULT_PROVIDER |-> p, DEFAULT_MODEL |-> <<"gemini", "-flash">>,
       SECRET_KEY |-> "secret-key",
       ACCESS_TOKEN_EXPIRE_MINUTES |-> AccessTokenExpire,
       ADMIN_USERNAME |-> "admin",
       ADMIN_PASSWORD_HASH |-> get_password_hash("pw")] :
        g \in {TRUE}, o \in {TRUE}, p \in {"gemini"} }

\* The model arguments a caller may pass to get_agent.
ModelArgs ==
    { None,
      Some(<<"gpt", "-4o">>),
      Some(<<"openai", ":", "gpt", "-4o">>),
      Some(<<"llama">>),
      Some(<<"claude", "-3">>) }

VARIABLES
    now,              \* the clock (time.time(), loop.time(), datetime.now)
    settings,         \* the configuration, fixed after start
    pool_size,        \* AgentPool.pool_size
    agent_order,      \* insertion order of the three dicts' keys
    agents,           \* AgentPool.agents: key -> agent (an identity)
    agent_usage,      \* AgentPool.agent_usage
    agent_last_used,  \* AgentPool.agent_last_used
    poolLock,         \* AgentPool.lock: its holder, or NoTask
    created,          \* number of Agent objects constructed so far
    retired,          \* agents deleted from the pool (eviction or sweep)
    acquired,         \* per pooled key: the calls of get_agent that returned
                      \* its agent since the agent was inserted
    peers,            \* per task: the tasks acquiring the same absent key concurrently
    pc,               \* per task: position in its coroutine
    pl,               \* per task: locals of the pool call in progress
    sweeper,          \* the maintenance coroutine running cleanup_unused_agents
    nCalls,           \* calls started so far (bounds the run)
    cache,            \* MemoryCache.cache: key -> [value, expires]
    enabled,          \* CacheService.enabled
    cacheLock,        \* MemoryCache.lock: its holder, or NoTask
    cl,               \* per task: locals of the cache call in progress
    stored,           \* per key: the value and the requested expiry (the
                      \* instant of the store plus the requested ttl) of the
                      \* last store, if no clear or sweep removed it since
    cleared,          \* keys removed by clear() and not stored since
    au,               \* the client of the authentication functions: the
                      \* token it holds and the outcome of its last call
    rq,               \* per task: the HTTP request it is serving
    fn                \* the last call of a function of utils/sanitize.py or
                      \* of the cache key function: its arguments and result

vars == <<now, settings, pool_size, agent_order, agents, agent_usage,
          agent_last_used, poolLock, created, retired, acquired, peers, pc, pl,
          sweeper, nCalls, cache, enabled, cacheLock, cl, stored, cleared,
          au, rq, fn>>

cacheAll == <<cache, enabled, cacheLock, cl, stored, cleared>>

poolAll == <<pool_size, agent_order, agents, agent_usage, agent_last_used,
             created, retired, acquired, poolLock, peers, pl, sweeper>>

nonPool == <<cacheAll, au, rq>>

nonCache == <<poolAll, au, rq>>

poolVars == <<pool_size, agent_order, agents, agent_usage, agent_last_used,
              created, retired, acquired>>

nonFn == <<now, settings, pc, nCalls, poolAll, cacheAll, au, rq>>

\* ------------------------------------------------------------- llm_utils.py
HasColon(s) == \E i \in 1..Len(s) : s[i] = ":"

StartsWith(s, tok) == Len(s) >= 1 /\ s[1] = tok

convert_model_name(model) ==
    IF HasColon(model) THEN model
    ELSE IF StartsWith(model, "gemini") THEN <<"google-gla", ":">> \o model
    ELSE IF StartsWith(model, "gpt") \/ StartsWith(model, "o1")
         THEN <<"openai", ":">> \o model
    ELSE IF StartsWith(model, "claude") THEN <<"anthropic", ":">> \o model
    ELSE IF settings.DEFAULT_PROVIDER = "gemini"
         THEN <<"google-gla", ":">> \o model
    ELSE <<"openai", ":">> \o model

HasProvider(model, p) == Len(model) >= 2 /\ model[1] = p /\ model[2] = ":"

\* TRUE when validate_api_key raises ValueError.
validate_api_key_raises(model) ==
    IF HasProvider(model, "google-gla") THEN ~settings.GEMINI_API_KEY
    ELSE IF HasProvider(model, "openai") THEN ~settings.OPENAI_API_KEY
    ELSE IF HasProvider(model, "anthropic") THEN ~settings.ANTHROPIC_API_KEY
    ELSE TRUE

\* The message of the ValueError validate_api_key raises, lines 50-60.
validate_api_key_message(model) ==
    IF HasProvider(model, "google-gla") THEN <<"Gemini API key not configured">>
    ELSE IF HasProvider(model, "openai") THEN <<"OpenAI API key not configured">>
    ELSE IF HasProvider(model, "anthropic")
    THEN <<"Anthropic API key not configured">>
    ELSE <<"Unsupported model format: ">> \o model

\* The message of the ValueError min() raises on an empty pool (line 65).
MinOfEmpty == <<"min() arg is an empty sequence">>

\* ------------------------------------------------------------ agent_pool.py
\* Truth value of an Optional[str]: None and "" are both false.
Truthy(opt) == opt # None /\ opt[1] # << >>

\* get_agent, lines 36-38: the normalized model name.
NormalizedName(model) ==
    LET first == IF Truthy(model) THEN convert_model_name(model[1])
                 ELSE settings.DEFAULT_MODEL
    IN  IF ~HasColon(first) THEN convert_model_name(first) ELSE first

AgentKey(model_name) == <<"agent_">> \o model_name

\* What get_stats returns before it is called.
NoStats ==
    [pool_size |-> 0, max_pool_size |-> 0, agents |-> << >>,
     usage_stats |-> << >>, last_used |-> << >>]

NoLocals == [agent_key |-> << >>, agent |-> NoAgent, err |-> << >>,
             hit |-> FALSE, stats |-> NoStats]

PoolKeys == DOMAIN agents

Remove(seq, S) == SelectSeq(seq, LAMBDA k : k \notin S)

\* min(self.agent_last_used.keys(), key=...): the first key, in the dict's
\* insertion order, whose last-used time is minimal.
LruKey ==
    LET idx == CHOOSE i \in 1..Len(agent_order) :
                 /\ \A j \in 1..Len(agent_order) :
                      agent_last_used[agent_order[i]] <= agent_last_used[agent_order[j]]
                 /\ \A j \in 1..(i - 1) :
                      agent_last_used[agent_order[j]] > agent_last_used[agent_order[i]]
    IN  agent_order[idx]

Drop(f, S) == [k \in (DOMAIN f) \ S |-> f[k]]

Put(f, k, v) == [x \in (DOMAIN f) \cup {k} |-> IF x = k THEN v ELSE f[x]]

\* get_agent, lines 36-42: normalize, validate the API key, build the key.
\* No lock is held here.  `raised` is where control goes when
\* validate_api_key raises.
GetAgentEnter(t, model, raised) ==
    LET model_name == NormalizedName(model)
        key == AgentKey(model_name)
        conc == IF key \in PoolKeys THEN {}
                ELSE {u \in Tasks \ {t} :
                        pc[u] = "ga_lock" /\ pl[u].agent_key = key}
    IN  IF validate_api_key_raises(model_name)
        THEN /\ pc' = [pc EXCEPT ![t] = raised]
             /\ pl' = [pl EXCEPT ![t] = [NoLocals EXCEPT !.err = validate_api_key_message(model_name)]]
             /\ UNCHANGED peers
        ELSE /\ pc' = [pc EXCEPT ![t] = "ga_lock"]
             /\ pl' = [pl EXCEPT ![t] = [NoLocals EXCEPT !.agent_key = key]]
             /\ peers' = [u \in Tasks |->
                            IF u = t THEN conc
                            ELSE IF u \in conc THEN peers[u] \cup {t}
                            ELSE peers[u]]

\* The branch of lines 46-49 without the two updates of lines 47-48.
GetExisting_NoBump(t, key) ==
    /\ pl' = [pl EXCEPT ![t].agent = agents[key], ![t].hit = TRUE]
    /\ pc' = [pc EXCEPT ![t] = "ga_ret"]
    /\ UNCHANGED <<agent_order, agents, agent_usage, agent_last_used, created,
                   retired>>

\* Lines 46-49: the key is in the pool.
GetExisting(t, key) ==
    /\ agent_usage' = [agent_usage EXCEPT ![key] = @ + 1]
    /\ agent_last_used' = [agent_last_used EXCEPT ![key] = now]
    /\ pl' = [pl EXCEPT ![t].agent = agents[key], ![t].hit = TRUE]
    /\ pc' = [pc EXCEPT ![t] = "ga_ret"]
    /\ UNCHANGED <<agent_order, agents, created, retired>>

CreateAgent_UsageZero(t, key, evict) ==
    /\ created' = created + 1
    /\ agents' = Put(Drop(agents, evict), key, created + 1)
    /\ agent_usage' = Put(Drop(agent_usage, evict), key, 0)
    /\ agent_last_used' = Put(Drop(agent_last_used, evict), key, now)
    /\ agent_order' = IF key \in PoolKeys \ evict
                      THEN Remove(agent_order, evict)
                      ELSE Append(Remove(agent_order, evict), key)
    /\ retired' = retired \cup {agents[k] : k \in evict}
    /\ pl' = [pl EXCEPT ![t].agent = created + 1]
    /\ pc' = [pc EXCEPT ![t] = "ga_ret"]

\* Lines 53-61 and 70-78: construct an agent and insert it, after deleting
\* the keys in `evict` (lines 65-67).
CreateAgent(t, key, evict) ==
    /\ created' = created + 1
    /\ agents' = Put(Drop(agents, evict), key, created + 1)
    /\ agent_usage' = Put(Drop(agent_usage, evict), key, 1)
    /\ agent_last_used' = Put(Drop(agent_last_used, evict), key, now)
    /\ agent_order' = IF key \in PoolKeys \ evict
                      THEN Remove(agent_order, evict)
                      ELSE Append(Remove(agent_order, evict), key)
    /\ retired' = retired \cup {agents[k] : k \in evict}
    /\ pl' = [pl EXCEPT ![t].agent = created + 1]
    /\ pc' = [pc EXCEPT ![t] = "ga_ret"]

\* get_agent without the eviction of lines 63-67.
GetAgentDecide_NoEvict(t, key) ==
    IF key \in PoolKeys THEN GetExisting(t, key)
    ELSE CreateAgent(t, key, {})

\* get_agent without the lookup of lines 46-49.
GetAgentDecide_NoLookup(t, key) ==
    IF Cardinality(PoolKeys) < pool_size THEN CreateAgent(t, key, {})
    ELSE IF PoolKeys = {}
         THEN /\ pl' = [pl EXCEPT ![t].err = MinOfEmpty]
              /\ pc' = [pc EXCEPT ![t] = "ga_raise"]
              /\ UNCHANGED <<agent_order, agents, agent_usage, agent_last_used,
                             created, retired>>
    ELSE CreateAgent(t, key, {LruKey})

\* The body of get_agent under the lock, lines 45-78, when min() raises on
\* an empty pool (pool_size = 0) included.
GetAgentDecide(t, key) ==
    IF key \in PoolKeys THEN GetExisting(t, key)
    ELSE IF Cardinality(PoolKeys) < pool_size THEN CreateAgent(t, key, {})
    ELSE IF PoolKeys = {}
         THEN /\ pl' = [pl EXCEPT ![t].err = MinOfEmpty]
              /\ pc' = [pc EXCEPT ![t] = "ga_raise"]
              /\ UNCHANGED <<agent_order, agents, agent_usage, agent_last_used,
                             created, retired>>
    ELSE CreateAgent(t, key, {LruKey})

Released_Never(t) == t

\* The holder of a lock after task t leaves its `async with self.lock`
\* block (agent_pool.py lines 44-78, cache_service.py lines 22, 36, 49 and
\* 55): the block exit releases the lock, on a return as on an exception.
Released(t) == NoTask

\* get_agent lines 44-78: `async with self.lock` and its body.  The body
\* awaits nothing, so that taking the lock, the body and the release at the
\* end of the block are one step, enabled when the lock is free; a task
\* waits at "ga_lock" until then.
GetAgentBody(t) ==
    /\ pc[t] = "ga_lock"
    /\ poolLock = NoTask
    /\ GetAgentDecide(t, pl[t].agent_key)
    /\ acquired' =
         [k \in DOMAIN agents' |->
            IF k = pl[t].agent_key /\ pc'[t] = "ga_ret"
            THEN IF k \in DOMAIN agents /\ agents'[k] = agents[k]
                 THEN acquired[k] + 1
                 ELSE 1
            ELSE acquired[k]]
    /\ poolLock' = Released(t)
    /\ UNCHANGED <<now, settings, fn, pool_size, peers, sweeper, nCalls, nonPool>>

\* cleanup_unused_agents line 87: the clock is read before the lock is taken.
CleanupCall(m) ==
    /\ sweeper.pc = "idle"
    /\ nCalls < MaxCalls
    /\ nCalls' = nCalls + 1
    /\ sweeper' = [pc |-> "cu_lock", current_time |-> now, max_idle_time |-> m]
    /\ UNCHANGED <<now, settings, fn, poolVars, poolLock, peers, pc, pl, nonPool>>

ExpiredKeys_AtThreshold(current_time, max_idle_time) ==
    {k \in PoolKeys : current_time - agent_last_used[k] >= max_idle_time}

\* cleanup_unused_agents lines 90-93: the keys to delete.
ExpiredKeys(current_time, max_idle_time) ==
    {k \in PoolKeys : current_time - agent_last_used[k] > max_idle_time}

\* cleanup_unused_agents lines 89-98: the lock, the body and the release.
CleanupBody ==
    /\ sweeper.pc = "cu_lock"
    /\ poolLock = NoTask
    /\ LET expired_keys == ExpiredKeys(sweeper.current_time, sweeper.max_idle_time)
       IN  /\ agents' = Drop(agents, expired_keys)
           /\ agent_usage' = Drop(agent_usage, expired_keys)
           /\ agent_last_used' = Drop(agent_last_used, expired_keys)
           /\ agent_order' = Remove(agent_order, expired_keys)
           /\ retired' = retired \cup {agents[k] : k \in expired_keys}
           /\ acquired' = Drop(acquired, expired_keys)
    /\ poolLock' = NoTask
    /\ sweeper' = [sweeper EXCEPT !.pc = "idle"]
    /\ UNCHANGED <<now, settings, fn, pool_size, created, peers, pc, pl, nCalls, nonPool>>

\* A caller of AgentPool.get_agent (performance.py line 78, get_pooled_agent).
PoolCall(t, model) ==
    /\ pc[t] = "idle"
    /\ nCalls < MaxCalls
    /\ nCalls' = nCalls + 1
    /\ GetAgentEnter(t, model, "ga_raise")
    /\ UNCHANGED <<now, settings, fn, poolVars, poolLock, sweeper, nonPool>>

get_stats_CountCreated ==
    [pool_size |-> created,
     max_pool_size |-> pool_size,
     agents |-> agent_order,
     usage_stats |-> agent_usage,
     last_used |-> [k \in DOMAIN agent_last_used |-> now - agent_last_used[k]]]

\* AgentPool.get_stats, lines 100-108: the function is not a coroutine and
\* takes no lock; it reads the three maps without awaiting.
get_stats ==
    [pool_size |-> Cardinality(DOMAIN agents),
     max_pool_size |-> pool_size,
     agents |-> agent_order,
     usage_stats |-> agent_usage,
     last_used |-> [k \in DOMAIN agent_last_used |-> now - agent_last_used[k]]]

\* The task that asks for the statistics.
StatsTasks == {1}

\* GET /performance/agent-pool (performance.py lines 119-129) calls
\* get_stats: one step of the handler, whoever holds the pool lock.
StatsCall(t) ==
    /\ pc[t] = "idle"
    /\ pl' = [pl EXCEPT ![t] = [NoLocals EXCEPT !.stats = get_stats]]
    /\ pc' = [pc EXCEPT ![t] = "gs_ret"]
    /\ UNCHANGED <<now, settings, fn, poolVars, poolLock, sweeper, peers, nCalls,
                   nonPool>>

\* The handler has sent the statistics.
StatsReturn(t) ==
    /\ pc[t] = "gs_ret"
    /\ pc' = [pc EXCEPT ![t] = "idle"]
    /\ pl' = [pl EXCEPT ![t] = NoLocals]
    /\ UNCHANGED <<now, settings, fn, poolVars, poolLock, sweeper, peers, nCalls,
                   nonPool>>

\* The caller is done with the agent (or with the exception).
PoolReturn(t) ==
    /\ pc[t] \in {"ga_ret", "ga_raise"}
    /\ pc' = [pc EXCEPT ![t] = "idle"]
    /\ pl' = [pl EXCEPT ![t] = NoLocals]
    /\ peers' = [u \in Tasks |-> IF u = t THEN {} ELSE peers[u] \ {t}]
    /\ UNCHANGED <<now, settings, fn, poolVars, poolLock, sweeper, nCalls, nonPool>>

\* ---------------------------------------------------------- cache_service.py
\* The default TTL the cache is constructed with (line 66).
DefaultTtl == 1

\* The prompts, models, responses and ttl arguments of direct cache calls.
CachePrompts == {"p1", "p2"}
CacheModels == {"m"}
CacheValues == {"v1", "v2"}
TtlArgs == {None, Some(-1), Some(0), Some(1)}

\* _generate_cache_key, lines 71-79: the prefix and a digest of the JSON
\* text of the data.  The digest is taken to be injective, so the key is
\* the pair itself.
CacheKey(prefix, data) == <<prefix, data>>

PromptKey(prompt, model) == CacheKey("prompt", <<prompt, model>>)

NoCacheLocals == [op |-> "", key |-> << >>, value |-> "", expires |-> 0,
                  due |-> 0, result |-> None]

\* MemoryCache.set line 33: `ttl or self.default_ttl`.
EffectiveTtl(ttl) == IF ttl = None \/ ttl[1] = 0 THEN DefaultTtl ELSE ttl[1]

\* The ttl a caller asked for: the one given, the default when none is given.
RequestedTtl(ttl) == IF ttl = None THEN DefaultTtl ELSE ttl[1]

CacheGetEnter_IgnoreFlag(t, key) ==
    /\ pc' = [pc EXCEPT ![t] = "cg_lock"]
    /\ cl' = [cl EXCEPT ![t] = [NoCacheLocals EXCEPT !.op = "get", !.key = key]]

\* CacheService.get_prompt_response, lines 81-90, up to the lock of
\* MemoryCache.get: a disabled cache answers None at once.
CacheGetEnter(t, key) ==
    IF ~enabled
    THEN /\ pc' = [pc EXCEPT ![t] = "c_ret"]
         /\ cl' = [cl EXCEPT ![t] = [NoCacheLocals EXCEPT !.op = "get", !.key = key]]
    ELSE /\ pc' = [pc EXCEPT ![t] = "cg_lock"]
         /\ cl' = [cl EXCEPT ![t] = [NoCacheLocals EXCEPT !.op = "get", !.key = key]]

\* CacheService.cache_prompt_response, lines 92-107, and MemoryCache.set
\* lines 33-34: the expiry is computed before the lock is taken.
CacheSetEnter(t, key, value, ttl) ==
    IF ~enabled
    THEN /\ pc' = [pc EXCEPT ![t] = "c_ret"]
         /\ cl' = [cl EXCEPT ![t] = [NoCacheLocals EXCEPT !.op = "set", !.key = key]]
    ELSE /\ pc' = [pc EXCEPT ![t] = "cs_lock"]
         /\ cl' = [cl EXCEPT ![t] =
                     [NoCacheLocals EXCEPT !.op = "set", !.key = key,
                                           !.value = value,
                                           !.expires = now + EffectiveTtl(ttl),
                                           !.due = now + RequestedTtl(ttl)]]

\* In MemoryCache.get, set, clear and cleanup_expired the block under
\* `async with self.lock` awaits nothing: taking the lock, the body and the
\* release are one step, enabled when the lock is free.
Fresh_AtExpiry(item) == item.expires >= now

\* The comparison of MemoryCache.get line 25.
Fresh(item) == item.expires > now

\* MemoryCache.get lines 22-29, under the lock.
GetResult(key) ==
    IF key \in DOMAIN cache /\ Fresh(cache[key]) THEN Some(cache[key].value)
    ELSE None

GetEffect(key) ==
    IF key \in DOMAIN cache /\ ~Fresh(cache[key]) THEN Drop(cache, {key})
    ELSE cache

MemoryCacheGet(t) ==
    /\ pc[t] = "cg_lock"
    /\ cacheLock = NoTask
    /\ cl' = [cl EXCEPT ![t].result = GetResult(cl[t].key)]
    /\ cache' = GetEffect(cl[t].key)
    /\ cacheLock' = Released(t)
    /\ pc' = [pc EXCEPT ![t] = "c_ret"]
    /\ UNCHANGED <<now, settings, fn, nCalls, enabled, stored, cleared, nonCache>>

MemoryCacheSet_KeepFirst(t) ==
    /\ pc[t] = "cs_lock"
    /\ cacheLock = NoTask
    /\ cache' = IF cl[t].key \in DOMAIN cache THEN cache
                ELSE Put(cache, cl[t].key,
                         [value |-> cl[t].value, expires |-> cl[t].expires])
    /\ stored' = Put(stored, cl[t].key,
                     [value |-> cl[t].value, due |-> cl[t].due])
    /\ cleared' = cleared \ {cl[t].key}
    /\ cacheLock' = Released(t)
    /\ pc' = [pc EXCEPT ![t] = "c_ret"]
    /\ UNCHANGED <<now, settings, fn, nCalls, enabled, cl, nonCache>>

\* MemoryCache.set lines 36-40, under the lock.
MemoryCacheSet(t) ==
    /\ pc[t] = "cs_lock"
    /\ cacheLock = NoTask
    /\ cache' = Put(cache, cl[t].key,
                    [value |-> cl[t].value, expires |-> cl[t].expires])
    /\ stored' = Put(stored, cl[t].key,
                     [value |-> cl[t].value, due |-> cl[t].due])
    /\ cleared' = cleared \ {cl[t].key}
    /\ cacheLock' = Released(t)
    /\ pc' = [pc EXCEPT ![t] = "c_ret"]
    /\ UNCHANGED <<now, settings, fn, nCalls, enabled, cl, nonCache>>

AfterClear_ExpiredOnly ==
    Drop(cache, {k \in DOMAIN cache : cache[k].expires <= now})

\* What MemoryCache.clear line 50 leaves in the map.
AfterClear == << >>

\* CacheService.clear_cache line 132 and MemoryCache.clear lines 49-50.
MemoryCacheClear(t) ==
    /\ pc[t] = "cc_lock"
    /\ cacheLock = NoTask
    /\ cache' = AfterClear
    /\ stored' = << >>
    /\ cleared' = cleared \cup DOMAIN cache
    /\ cacheLock' = Released(t)
    /\ pc' = [pc EXCEPT ![t] = "c_ret"]
    /\ UNCHANGED <<now, settings, fn, nCalls, enabled, cl, nonCache>>

ExpiredEntries_Strict(current_time) ==
    {k \in DOMAIN cache : cache[k].expires < current_time}

\* The comprehension of MemoryCache.cleanup_expired lines 56-59.
ExpiredEntries(current_time) ==
    {k \in DOMAIN cache : cache[k].expires <= current_time}

\* MemoryCache.cleanup_expired lines 55-61, under the lock; current_time
\* (kept in cl[t].expires) was read at line 54, before the lock.
MemoryCacheCleanup(t) ==
    /\ pc[t] = "ce_lock"
    /\ cacheLock = NoTask
    /\ LET expired_keys == ExpiredEntries(cl[t].expires)
       IN  /\ cache' = Drop(cache, expired_keys)
           /\ stored' = Drop(stored, expired_keys)
    /\ cacheLock' = Released(t)
    /\ pc' = [pc EXCEPT ![t] = "c_ret"]
    /\ UNCHANGED <<now, settings, fn, nCalls, enabled, cl, cleared, nonCache>>

\* Direct calls of the cache service (performance.py lines 85-86, 167, 180).
CacheLookupCall(t, prompt, model) ==
    /\ pc[t] = "idle"
    /\ nCalls < MaxCalls
    /\ nCalls' = nCalls + 1
    /\ CacheGetEnter(t, PromptKey(prompt, model))
    /\ UNCHANGED <<now, settings, fn, cache, enabled, cacheLock, stored, cleared,
                   nonCache>>

CacheStoreCall(t, prompt, model, value, ttl) ==
    /\ pc[t] = "idle"
    /\ nCalls < MaxCalls
    /\ nCalls' = nCalls + 1
    /\ CacheSetEnter(t, PromptKey(prompt, model), value, ttl)
    /\ UNCHANGED <<now, settings, fn, cache, enabled, cacheLock, stored, cleared,
                   nonCache>>

CacheClearCall(t) ==
    /\ pc[t] = "idle"
    /\ nCalls < MaxCalls
    /\ nCalls' = nCalls + 1
    /\ pc' = [pc EXCEPT ![t] = "cc_lock"]
    /\ cl' = [cl EXCEPT ![t] = [NoCacheLocals EXCEPT !.op = "clear"]]
    /\ UNCHANGED <<now, settings, fn, cache, enabled, cacheLock, stored, cleared,
                   nonCache>>

CacheCleanupCall(t) ==
    /\ pc[t] = "idle"
    /\ nCalls < MaxCalls
    /\ nCalls' = nCalls + 1
    /\ pc' = [pc EXCEPT ![t] = "ce_lock"]
    /\ cl' = [cl EXCEPT ![t] = [NoCacheLocals EXCEPT !.op = "cleanup", !.expires = now]]
    /\ UNCHANGED <<now, settings, fn, cache, enabled, cacheLock, stored, cleared,
                   nonCache>>

\* The caller has its answer.
CacheReturn(t) ==
    /\ pc[t] = "c_ret"
    /\ pc' = [pc EXCEPT ![t] = "idle"]
    /\ cl' = [cl EXCEPT ![t] = NoCacheLocals]
    /\ UNCHANGED <<now, settings, fn, nCalls, cache, enabled, cacheLock, stored,
                   cleared, nonCache>>

\* CacheService.disable_cache / enable_cache, lines 138-144.
SetEnabled(b) ==
    /\ enabled # b
    /\ enabled' = b
    /\ UNCHANGED <<now, settings, fn, pc, nCalls, cache, cacheLock, cl, stored,
                   cleared, nonCache>>

\* ------------------------------------------------ tokens (python-jose)
\* The "sub" claim of a payload: a string, a value of another type, or no
\* claim at all.
StrSub(s) == [type |-> "str", val |-> s]

IntSub == [type |-> "int", val |-> "42"]

NoSub == [type |-> "none", val |-> ""]

\* The signature binds the claims to the key it was made with.
Signature(claims, key) == [key |-> key, claims |-> claims]

\* jwt.encode, auth.py lines 53-55.
jwt_encode(claims, key) ==
    [form |-> "jwt", claims |-> claims, sig |-> Signature(claims, key)]

\* A string that is no JWT.
GarbageToken ==
    [form |-> "garbage", claims |-> [sub |-> NoSub, exp |-> 0],
     sig |-> Signature([sub |-> NoSub, exp |-> 0], "")]

\* A token whose claims were altered after signing.
Tampered(token, claims) == [token EXCEPT !.claims = claims]

jwt_decode_NoExpiry(token, key) ==
    IF token.form # "jwt" THEN None
    ELSE IF token.sig # Signature(token.claims, key) THEN None
    ELSE Some(token.claims)

\* jwt.decode, auth.py lines 62-64: None stands for a raised JWTError (bad
\* format, bad signature, or ExpiredSignatureError when exp < now).
jwt_decode(token, key) ==
    IF token.form # "jwt" THEN None
    ELSE IF token.sig # Signature(token.claims, key) THEN None
    ELSE IF token.claims.exp < now THEN None
    ELSE Some(token.claims)

\* create_access_token, auth.py lines 41-56; `if expires_delta:` is false for
\* None and for a zero timedelta.
create_access_token(data, expires_delta) ==
    LET expire == IF expires_delta # None /\ expires_delta[1] # 0
                  THEN now + expires_delta[1]
                  ELSE now + settings.ACCESS_TOKEN_EXPIRE_MINUTES
    IN  jwt_encode([sub |-> data.sub, exp |-> expire], settings.SECRET_KEY)

\* verify_token, auth.py lines 59-71.
verify_token(token) ==
    LET payload == jwt_decode(token, settings.SECRET_KEY)
    IN  IF payload = None THEN None
        ELSE LET username == payload[1].sub
             IN  IF username.type = "none" \/ username.type # "str" THEN None
                 ELSE Some([username |-> username.val])

authenticate_user_AnyUsername(username, password) ==
    verify_password(password, settings.ADMIN_PASSWORD_HASH)

\* authenticate_user, auth.py lines 74-81.
authenticate_user(username, password) ==
    IF username # settings.ADMIN_USERNAME THEN FALSE
    ELSE verify_password(password, settings.ADMIN_PASSWORD_HASH)

\* models/user.py lines 19-21.
get_current_user_model ==
    [username |-> settings.ADMIN_USERNAME, is_active |-> TRUE, is_admin |-> TRUE]

get_user_by_username_Any(username) ==
    Some([username |-> username, is_active |-> TRUE, is_admin |-> TRUE])

\* get_user_by_username, models/user.py lines 24-28.
get_user_by_username(username) ==
    IF username = settings.ADMIN_USERNAME THEN Some(get_current_user_model)
    ELSE None

\* get_current_user_from_token, services/user.py lines 40-61: the user, or
\* the status of the HTTPException raised.
get_current_user_from_token(token) ==
    LET token_data == verify_token(token)
    IN  IF token_data = None
        THEN [status |-> 401, user |-> None]
        ELSE LET user == get_user_by_username(token_data[1].username)
             IN  IF user = None
                 THEN [status |-> 401, user |-> None]
                 ELSE [status |-> 200, user |-> user]

\* The dependency get_current_user, dependencies.py lines 19-33, with
\* security = HTTPBearer() (services/user.py line 16), which answers 403 to
\* a request without an Authorization header (tests/test_auth.py lines
\* 79-83).  `authorization` is the Optional bearer token of the request.
get_current_user(authorization) ==
    IF authorization = None
    THEN [status |-> 403, user |-> None]
    ELSE get_current_user_from_token(authorization[1])

\* ------------------------------------- the authentication calls of a client
Usernames == {"admin", "bob"}

Passwords == {"pw", "guess"}

Subjects == {StrSub("admin"), StrSub("bob"), IntSub, NoSub}

DeltaArgs == {None, Some(-1), Some(0), Some(1)}

\* Tokens not made by create_access_token: a string that is no JWT, a token
\* signed with another key, a token whose subject was altered after signing.
ForgedTokens ==
    { GarbageToken,
      jwt_encode([sub |-> StrSub("admin"), exp |-> MaxAuthTime + 1], "other-key"),
      Tampered(jwt_encode([sub |-> StrSub("bob"), exp |-> MaxAuthTime + 1],
                          "secret-key"),
               [sub |-> StrSub("admin"), exp |-> MaxAuthTime + 1]) }

NoOutcome ==
    [op |-> "", username |-> "", password |-> "", status |-> 0,
     resp_token |-> None, sent |-> FALSE, td |-> None, user |-> None,
     ran |-> FALSE]

\* `token` is the token the client holds, `origin` where it came from, `made`
\* and `delta` the instant and the expires_delta of its creation.
NoSession ==
    [token |-> None, origin |-> "none", made |-> 0, delta |-> None,
     out |-> NoOutcome]

AuthFrame ==
    /\ nCalls < MaxCalls
    /\ nCalls' = nCalls + 1
    /\ UNCHANGED <<now, settings, fn, pc, poolAll, cacheAll, rq>>

\* POST /auth/login: login_user, services/user.py lines 19-37.
Login(username, password) ==
    /\ AuthFrame
    /\ IF ~authenticate_user(username, password)
       THEN au' = [au EXCEPT !.out =
                      [NoOutcome EXCEPT !.op = "login", !.username = username,
                                        !.password = password, !.status = 401]]
       ELSE LET access_token ==
                    create_access_token(
                        [sub |-> StrSub(username)],
                        Some(settings.ACCESS_TOKEN_EXPIRE_MINUTES))
            IN  au' = [token |-> Some(access_token), origin |-> "login",
                       made |-> now,
                       delta |-> Some(settings.ACCESS_TOKEN_EXPIRE_MINUTES),
                       out |-> [NoOutcome EXCEPT !.op = "login",
                                                 !.username = username,
                                                 !.password = password,
                                                 !.status = 200,
                                                 !.resp_token = Some(access_token)]]

\* A direct call of create_access_token(data={"sub": sub}, expires_delta).
CreateToken(sub, expires_delta) ==
    /\ AuthFrame
    /\ au' = [token |-> Some(create_access_token([sub |-> sub], expires_delta)),
              origin |-> "create", made |-> now, delta |-> expires_delta,
              out |-> [NoOutcome EXCEPT !.op = "create"]]

\* The client takes a token that the application did not issue.
Forge(token) ==
    /\ AuthFrame
    /\ au' = [token |-> Some(token), origin |-> "forged", made |-> now,
              delta |-> None, out |-> [NoOutcome EXCEPT !.op = "forge"]]

\* A direct call of verify_token on the token held.
VerifyToken ==
    /\ au.token # None
    /\ AuthFrame
    /\ au' = [au EXCEPT !.out = [NoOutcome EXCEPT !.op = "verify",
                                     !.td = verify_token(au.token[1])]]

\* GET /auth/me, api/v1/auth.py lines 28-39, with the token held in the
\* Authorization header or without the header.  The handler body runs only
\* when the dependency returned a user.
GetMe(send) ==
    /\ send => au.token # None
    /\ AuthFrame
    /\ LET r == get_current_user(IF send THEN au.token ELSE None)
       IN  au' = [au EXCEPT !.out =
                     [NoOutcome EXCEPT !.op = "me", !.sent = send,
                                       !.status = r.status,
                                       !.user = r.user,
                                       !.ran = (r.status = 200)]]

\* -------------------------------------------------------- utils/sanitize.py
\* The number of characters of a token of a model name; "x*101" stands for
\* 101 letters.
Chars(tok) ==
    IF tok = "x*101" THEN 101
    ELSE IF tok \in {"/", ":", " ", "\n"} THEN 1
    ELSE IF tok \in {"gpt", "-4o"} THEN 3
    ELSE 6

RECURSIVE NameLen(_)
NameLen(name) == IF name = << >> THEN 0 ELSE Chars(Head(name)) + NameLen(Tail(name))

\* The character class [a-zA-Z0-9\-_.] of line 93.
AllowedToken(tok) == tok \notin {"/", ":", " ", "\n"}

\* validate_model_name, lines 79-94.  With re.match, `$` also matches just
\* before a newline that ends the string.
validate_model_name(model_name) ==
    IF model_name = << >> THEN FALSE
    ELSE LET n == Len(model_name)
             body == IF model_name[n] = "\n" THEN SubSeq(model_name, 1, n - 1)
                     ELSE model_name
         IN  /\ body # << >>
             /\ \A i \in 1..Len(body) : AllowedToken(body[i])
             /\ NameLen(model_name) <= MaxModelNameLen

\* A text is a sequence of atoms: single characters, and pieces that only
\* occur whole in the texts considered (the letters INST, three backquotes
\* written "bq3", the bell character written "BEL", words, a run of 10000
\* letters).
AtomLen(a) ==
    IF a = "a*10000" THEN 10000
    ELSE IF a \in {"INST", "inst"} THEN 4
    ELSE IF a \in {"bq3", "..."} THEN 3
    ELSE IF a \in {"hello", "Hello", "world"} THEN 5
    ELSE IF a = "script" THEN 6
    ELSE 1

RECURSIVE TextLen(_)
TextLen(text) ==
    IF text = << >> THEN 0 ELSE AtomLen(Head(text)) + TextLen(Tail(text))

\* The characters \s matches.
IsSpace(a) == a \in {" ", "\n", "\t"}

\* The characters [\x00-\x1f\x7f-\x9f] matches that \s does not.
IsControl(a) == a \in {"BEL"}

RECURSIVE SkipSpaces(_)
SkipSpaces(text) ==
    IF text # << >> /\ IsSpace(Head(text)) THEN SkipSpaces(Tail(text)) ELSE text

\* re.sub(r"\s+", " ", text), line 23.
RECURSIVE CollapseSpaces(_)
CollapseSpaces(text) ==
    IF text = << >> THEN << >>
    ELSE IF IsSpace(Head(text)) THEN <<" ">> \o CollapseSpaces(SkipSpaces(text))
    ELSE <<Head(text)>> \o CollapseSpaces(Tail(text))

\* re.sub(r"[\x00-\x1f\x7f-\x9f]", "", text), line 24.
RemoveControl(text) == SelectSeq(text, LAMBDA a : ~IsControl(a))

\* The least element of a set of positions, 0 when there is none.
Nearest(S) == IF S = {} THEN 0 ELSE CHOOSE j \in S : \A k \in S : j <= k

\* injection_patterns, lines 27-34, in the order they are applied.
InjectionPatterns == <<"code", "html", "inst", "inst_end", "special", "template">>

\* The position where the match of a pattern that starts at position i of
\* `text` ends, 0 when the pattern does not match there.  The quantifiers
\* *? and [^>]* both stop at the nearest closing delimiter; re.IGNORECASE
\* makes the letters of INST match in either case.
MatchEnd(pattern, text, i) ==
    LET n == Len(text)
    IN  CASE pattern = "code" ->
               IF text[i] = "bq3"
               THEN Nearest({j \in (i + 1)..n : text[j] = "bq3"}) ELSE 0
          [] pattern = "html" ->
               IF text[i] = "<"
               THEN Nearest({j \in (i + 1)..n : text[j] = ">"}) ELSE 0
          [] pattern = "inst" ->
               IF /\ i + 2 <= n
                  /\ text[i] = "[" /\ text[i + 1] \in {"INST", "inst"}
                  /\ text[i + 2] = "]"
               THEN i + 2 ELSE 0
          [] pattern = "inst_end" ->
               IF /\ i + 3 <= n
                  /\ text[i] = "[" /\ text[i + 1] = "/"
                  /\ text[i + 2] \in {"INST", "inst"} /\ text[i + 3] = "]"
               THEN i + 3 ELSE 0
          [] pattern = "special" ->
               IF i + 1 <= n /\ text[i] = "<" /\ text[i + 1] = "|"
               THEN LET e == Nearest({j \in (i + 2)..(n - 1) :
                                        text[j] = "|" /\ text[j + 1] = ">"})
                    IN  IF e = 0 THEN 0 ELSE e + 1
               ELSE 0
          [] pattern = "template" ->
               IF text[i] = "{"
               THEN Nearest({j \in (i + 1)..n : text[j] = "}"}) ELSE 0

\* re.sub(pattern, "", text) from position i on: one scan from left to
\* right that deletes the matches it meets and goes on after each.
RECURSIVE SubFrom(_, _, _)
SubFrom(pattern, text, i) ==
    IF i > Len(text) THEN << >>
    ELSE LET e == MatchEnd(pattern, text, i)
         IN  IF e = 0 THEN <<text[i]>> \o SubFrom(pattern, text, i + 1)
             ELSE SubFrom(pattern, text, e + 1)

\* The loop of lines 36-37, from the k-th pattern on.
RECURSIVE ApplyPatterns(_, _)
ApplyPatterns(text, k) ==
    IF k > Len(InjectionPatterns) THEN text
    ELSE ApplyPatterns(SubFrom(InjectionPatterns[k], text, 1), k + 1)

\* The longest prefix of whole atoms that has at most n characters.
RECURSIVE TakeChars(_, _)
TakeChars(text, n) ==
    IF text = << >> \/ AtomLen(Head(text)) > n THEN << >>
    ELSE <<Head(text)>> \o TakeChars(Tail(text), n - AtomLen(Head(text)))

\* Lines 40-42; the texts considered are cut between two atoms.
Truncate(text) ==
    IF TextLen(text) > MaxPromptLength
    THEN TakeChars(text, MaxPromptLength) \o <<"...">>
    ELSE text

\* str.strip(), line 44.
RECURSIVE Strip(_)
Strip(text) ==
    IF text = << >> THEN << >>
    ELSE IF IsSpace(Head(text)) THEN Strip(Tail(text))
    ELSE IF IsSpace(text[Len(text)]) THEN Strip(SubSeq(text, 1, Len(text) - 1))
    ELSE text

\* sanitize_prompt, lines 8-44.
sanitize_prompt(text) ==
    IF text = << >> THEN << >>
    ELSE Strip(Truncate(ApplyPatterns(RemoveControl(CollapseSpaces(text)), 1)))

\* ------------------------------------------ api/v1/agent.py, simple_agent.py
\* The tasks serving HTTP requests.
Clients == {1, 2}

\* The Authorization header of a request: none, or a bearer token.
HttpCredentials ==
    { None,
      Some(jwt_encode([sub |-> StrSub("admin"), exp |-> MaxTime + 1], "secret-key")),
      Some(jwt_encode([sub |-> StrSub("admin"), exp |-> 0], "secret-key")),
      Some(jwt_encode([sub |-> StrSub("bob"), exp |-> MaxTime + 1], "secret-key")),
      Some(jwt_encode([sub |-> StrSub("admin"), exp |-> MaxTime + 1], "other-key")),
      Some(GarbageToken) }

Endpoints == {"prompt", "conversation"}

\* The model field of a request body.
HttpModels ==
    { None, Some(<< >>), Some(<<"gpt", "-4o">>), Some(<<"claude", "-3">>),
      Some(<<"invalid", "/", "name">>) }

\* The message of a prompt request (at least one character, schemas/agent.py
\* line 13); the messages of a conversation request.
PromptTexts == { <<"hello">> }

\* The message of the prompt body that has every optional field set.
PaddedText == <<" ", "hello">>

\* The fields of a prompt request besides message and model: temperature,
\* max_tokens, system_prompt and context (schemas/agent.py lines 15-18), all
\* optional.
NoOptions ==
    [temperature |-> None, max_tokens |-> None, system_prompt |-> None,
     context |-> None]

AllOptions ==
    [temperature |-> Some(2), max_tokens |-> Some(100),
     system_prompt |-> Some(<<"be", " ", "brief">>),
     context |-> Some("session")]

\* The prompt bodies: a message with each model and no other field, and one
\* body with every other field set, whose message differs from the others'
\* by leading white space.
PromptBodies ==
    { [model |-> m, messages |-> <<x>>, options |-> NoOptions] :
        m \in HttpModels, x \in PromptTexts }
    \cup { [model |-> None, messages |-> << PaddedText >>,
            options |-> AllOptions] }

ConversationTexts == { << >>, << <<"hello">> >> }

ProviderOutputs == { "answer", "other answer" }

\* str(e) of the exception agent.run raises.
ProviderErrors == { "timeout", "quota exceeded" }

\* The message texts of the request bodies.
MessageTexts ==
    PromptTexts \cup { PaddedText }
    \cup UNION { {xs[i] : i \in 1..Len(xs)} : xs \in ConversationTexts }

NoRequest ==
    [stage |-> "idle", endpoint |-> "", authorization |-> None,
     model |-> None, messages |-> << >>, status |-> 0, log |-> << >>,
     agent |-> NoAgent, output |-> "", detail |-> << >>,
     options |-> NoOptions, key |-> << >>, sent |-> << >>]

Reached(t, what) == \E i \in 1..Len(rq[t].log) : rq[t].log[i] = what

\* request.model or "default", simple_agent.py line 25.
ModelNameOrDefault(model) == IF Truthy(model) THEN model[1] ELSE <<"default">>

\* sanitize_prompt on the message texts of the request bodies, computed
\* once for each text.
Sanitized == [text \in MessageTexts |-> sanitize_prompt(text)]

RequestKey_WithOptions(t) ==
    CacheKey("prompt", <<Sanitized[rq[t].messages[1]],
                         ModelNameOrDefault(rq[t].model), rq[t].options>>)

\* The key of get_prompt_response and of cache_prompt_response,
\* simple_agent.py lines 24-30 and 62-64.
RequestKey(t) ==
    PromptKey(Sanitized[rq[t].messages[1]], ModelNameOrDefault(rq[t].model))

\* The argument of agent.run: the sanitized message (simple_agent.py lines
\* 24 and 45); for a conversation the sanitized last message, the
\* conversations of ConversationTexts having no earlier message (lines
\* 84-97).
ProviderText(t) == Sanitized[rq[t].messages[Len(rq[t].messages)]]

Respond(t, status, output) ==
    [rq[t] EXCEPT !.stage = "responded", !.status = status, !.output = output]

\* The handler raises HTTPException(status, detail); the response body is
\* {"error": detail, "type": "http_error", "path": ...} (middleware/errors.py
\* lines 66-74, registered in main.py line 66).
RespondError(t, status, detail) ==
    [rq[t] EXCEPT !.stage = "responded", !.status = status, !.detail = detail]

\* A request arrives at POST /agent/prompt or POST /agent/conversation.  Its
\* body is an input of the step that first reads it, Validate.  Each task
\* serves one request.
Receive(t, endpoint, authorization) ==
    /\ rq[t].stage = "idle"
    /\ pc[t] = "idle"
    /\ rq' = [rq EXCEPT ![t] =
                [NoRequest EXCEPT !.stage = "security", !.endpoint = endpoint,
                                  !.authorization = authorization]]
    /\ UNCHANGED <<now, settings, fn, nCalls, pc, poolAll, cacheAll, au>>

\* The dependency CurrentUserDep (agent.py lines 27 and 62) is resolved
\* before the handler is called: a failure answers the request.
Authenticate(t) ==
    /\ rq[t].stage = "security"
    /\ LET r == get_current_user(rq[t].authorization)
           seen == [rq[t] EXCEPT !.log = Append(@, "security")]
       IN  rq' = [rq EXCEPT ![t] =
                    IF r.status # 200
                    THEN [seen EXCEPT !.stage = "responded", !.status = r.status]
                    ELSE [seen EXCEPT !.stage = "handler"]]
    /\ UNCHANGED <<now, settings, fn, nCalls, pc, poolAll, cacheAll, au>>

\* The bodies a request to `endpoint` may carry.
Bodies(endpoint) ==
    IF endpoint = "prompt"
    THEN PromptBodies
    ELSE { [model |-> m, messages |-> xs, options |-> NoOptions] :
             m \in HttpModels, xs \in ConversationTexts }

AllBodies == UNION {Bodies(e) : e \in Endpoints}

HandlerRejects_ModelOnly(endpoint, body) ==
    Truthy(body.model) /\ ~validate_model_name(body.model[1])

\* The handler's checks: process_prompt lines 42-45, process_conversation
\* lines 75-87.
HandlerRejects(endpoint, body) ==
    \/ Truthy(body.model) /\ ~validate_model_name(body.model[1])
    \/ endpoint = "conversation" /\ body.messages = << >>

\* The detail of the 400 the handler raises: the model check comes first
\* (agent.py lines 44, 79 and 86).
HandlerDetail(endpoint, body) ==
    IF Truthy(body.model) /\ ~validate_model_name(body.model[1])
    THEN <<"Invalid model name">>
    ELSE <<"At least one message is required">>

\* The prefix the service and the handler put before str(e):
\* simple_agent.py lines 70 and 117, agent.py lines 53 and 95.
ErrorPrefix(endpoint) ==
    IF endpoint = "prompt" THEN "Error processing prompt: "
    ELSE "Error processing conversation: "

Validate(t, body) ==
    /\ rq[t].stage = "handler"
    /\ body \in Bodies(rq[t].endpoint)
    /\ LET seen == [rq[t] EXCEPT !.log = Append(@, "validation"),
                                 !.model = body.model,
                                 !.messages = body.messages,
                                 !.options = body.options]
       IN  rq' = [rq EXCEPT ![t] =
                    IF HandlerRejects(rq[t].endpoint, body)
                    THEN [seen EXCEPT !.stage = "responded", !.status = 400,
                                      !.detail =
                                          HandlerDetail(rq[t].endpoint, body)]
                    ELSE [seen EXCEPT !.stage = "service"]]
    /\ UNCHANGED <<now, settings, fn, nCalls, pc, poolAll, cacheAll, au>>

\* process_simple_prompt lines 21-30: sanitize, then look the response up.
PromptStart(t) ==
    /\ rq[t].stage = "service"
    /\ rq[t].endpoint = "prompt"
    /\ CacheGetEnter(t, RequestKey(t))
    /\ rq' = [rq EXCEPT ![t].stage = "cache_check", ![t].key = RequestKey(t),
                        ![t].log = Append(@, "cache")]
    /\ UNCHANGED <<now, settings, fn, nCalls, cache, enabled, cacheLock, stored,
                   cleared, poolAll, au>>

\* process_simple_conversation lines 77-80: the agent is acquired at once.
ConversationStart(t) ==
    /\ rq[t].stage = "service"
    /\ rq[t].endpoint = "conversation"
    /\ GetAgentEnter(t, rq[t].model, "ga_raise")
    /\ rq' = [rq EXCEPT ![t].stage = "acquire", ![t].log = Append(@, "pool")]
    /\ UNCHANGED <<now, settings, fn, nCalls, poolVars, poolLock, sweeper,
                   cacheAll, au>>

CacheChecked_IgnoreHit(t) ==
    /\ rq[t].stage = "cache_check"
    /\ pc[t] = "c_ret"
    /\ cl' = [cl EXCEPT ![t] = NoCacheLocals]
    /\ GetAgentEnter(t, rq[t].model, "ga_raise")
    /\ rq' = [rq EXCEPT ![t].stage = "acquire", ![t].log = Append(@, "pool")]
    /\ UNCHANGED <<now, settings, fn, nCalls, poolVars, poolLock, sweeper, cache,
                   enabled, cacheLock, stored, cleared, au>>

\* process_simple_prompt lines 32-41: a hit is returned, a miss goes on to
\* get_pooled_agent.
CacheChecked(t) ==
    /\ rq[t].stage = "cache_check"
    /\ pc[t] = "c_ret"
    /\ cl' = [cl EXCEPT ![t] = NoCacheLocals]
    /\ IF cl[t].result # None
       THEN /\ rq' = [rq EXCEPT ![t] =
                        Respond(t, 200, cl[t].result[1].response)]
            /\ pc' = [pc EXCEPT ![t] = "idle"]
            /\ UNCHANGED <<pl, peers>>
       ELSE /\ GetAgentEnter(t, rq[t].model, "ga_raise")
            /\ rq' = [rq EXCEPT ![t].stage = "acquire",
                                ![t].log = Append(@, "pool")]
    /\ UNCHANGED <<now, settings, fn, nCalls, poolVars, poolLock, sweeper, cache,
                   enabled, cacheLock, stored, cleared, au>>

\* get_pooled_agent returned: agent.run starts (simple_agent.py lines 45 and
\* 97); or it raised, and the handler answers 500 (agent.py lines 50-54 and
\* 92-96).
Acquired(t) ==
    /\ rq[t].stage = "acquire"
    /\ pc[t] \in {"ga_ret", "ga_raise"}
    /\ rq' = [rq EXCEPT ![t] =
                IF pc[t] = "ga_raise"
                THEN RespondError(t, 500,
                                  <<ErrorPrefix(rq[t].endpoint)>> \o pl[t].err)
                ELSE [rq[t] EXCEPT !.stage = "provider",
                                   !.agent = pl[t].agent,
                                   !.sent = ProviderText(t),
                                   !.log = Append(@, "provider")]]
    /\ pc' = [pc EXCEPT ![t] = "idle"]
    /\ pl' = [pl EXCEPT ![t] = NoLocals]
    /\ peers' = [u \in Tasks |-> IF u = t THEN {} ELSE peers[u] \ {t}]
    /\ UNCHANGED <<now, settings, fn, nCalls, poolVars, poolLock, sweeper,
                   cacheAll, au>>

ProviderFails_Retry(t, err) ==
    /\ rq[t].stage = "provider"
    /\ rq' = [rq EXCEPT ![t].log = Append(@, "provider")]
    /\ UNCHANGED <<now, settings, fn, nCalls, pc, poolAll, cacheAll, au>>

\* agent.run raised an exception with message `err`: the service wraps it
\* (simple_agent.py lines 68-70 and 115-117), then the handler's except
\* clause wraps it again into the detail of a 500 (agent.py lines 50-54 and
\* 92-96).
ProviderFails(t, err) ==
    /\ rq[t].stage = "provider"
    /\ rq' = [rq EXCEPT ![t] =
                RespondError(t, 500,
                             <<ErrorPrefix(rq[t].endpoint),
                               ErrorPrefix(rq[t].endpoint), err>>)]
    /\ UNCHANGED <<now, settings, fn, nCalls, pc, poolAll, cacheAll, au>>

\* agent.run as it would be if a handle worked only while it is pooled.
ProviderReturns_PooledOnly(t, output) ==
    /\ rq[t].stage = "provider"
    /\ rq[t].agent \notin retired
    /\ rq' = [rq EXCEPT ![t] = Respond(t, 200, output)]
    /\ UNCHANGED <<now, settings, fn, nCalls, pc, poolAll, cacheAll, au>>

\* agent.run returned `output`: a prompt request stores the response
\* (simple_agent.py lines 47-64), a conversation request returns it (lines
\* 99-113).
ProviderReturns(t, output) ==
    /\ rq[t].stage = "provider"
    /\ IF rq[t].endpoint = "prompt"
       THEN /\ CacheSetEnter(t, RequestKey(t),
                             [response |-> output,
                              model_used |-> ModelNameOrDefault(rq[t].model)],
                             None)
            /\ rq' = [rq EXCEPT ![t].stage = "store", ![t].output = output,
                                ![t].log = Append(@, "store")]
       ELSE /\ rq' = [rq EXCEPT ![t] = Respond(t, 200, output)]
            /\ UNCHANGED <<pc, cl>>
    /\ UNCHANGED <<now, settings, fn, nCalls, cache, enabled, cacheLock, stored,
                   cleared, poolAll, au>>

\* cache_prompt_response returned: the response is sent (line 66).
Stored(t) ==
    /\ rq[t].stage = "store"
    /\ pc[t] = "c_ret"
    /\ rq' = [rq EXCEPT ![t] = Respond(t, 200, rq[t].output)]
    /\ pc' = [pc EXCEPT ![t] = "idle"]
    /\ cl' = [cl EXCEPT ![t] = NoCacheLocals]
    /\ UNCHANGED <<now, settings, fn, nCalls, cache, enabled, cacheLock, stored,
                   cleared, poolAll, au>>

\* ------------------------------------------- calls of the pure functions
NoCall == [op |-> "", text |-> << >>, out |-> << >>, ok |-> FALSE,
           done |-> FALSE]

\* The atoms of the texts sanitize_prompt is called with.
MarkerAtoms == {"[", "]", "/", "INST", "<", ">", "{", "}", "a", " "}

NestedAtoms == {"[", "]", "/", "INST", "{", "}"}

\* Texts of up to four atoms, the nestings of up to six atoms, and texts
\* with code fences, special tokens, white space, a control character, lower
\* case, the text of tests/test_agent.py line 120 and a text of 10001
\* characters.
SanitizeTexts ==
    UNION {[1..n -> MarkerAtoms] : n \in 0..4}
      \cup UNION {[1..n -> NestedAtoms] : n \in 5..6}
      \cup { <<"Hello", " ", "<", "script", ">", "a", "<", "/", "script", ">",
               " ", "world">>,
             <<"[", "INST", "]", " ", "hello", " ", "[", "/", "INST", "]">>,
             <<"[", "inst", "]", "hello">>,
             <<"hello", "bq3", "a", "\n", "a", "bq3", "world">>,
             <<"bq3", "hello">>,
             <<"<", "|", "a", "|", ">", "hello">>,
             <<"hello", "\n", "\t", " ", "world", "BEL", " ">>,
             <<"a*10000", "a">>,
             <<"a*10000">>,
             <<"a*10000", "[", "INST", "]">> }

\* sanitize_prompt is applied to its argument.
SanitizeCall ==
    /\ fn.op = "sanitize_prompt" /\ ~fn.done
    /\ fn' = [fn EXCEPT !.out = sanitize_prompt(fn.text), !.done = TRUE]
    /\ UNCHANGED nonFn

\* The names validate_model_name is called with.
NameAtoms == {"gpt", "-4o", "/", ":", " ", "\n", "x*101"}

ModelNames == UNION {[1..n -> NameAtoms] : n \in 0..3}

\* validate_model_name is applied to its argument.
ValidateNameCall ==
    /\ fn.op = "validate_model_name" /\ ~fn.done
    /\ fn' = [fn EXCEPT !.ok = validate_model_name(fn.text), !.done = TRUE]
    /\ UNCHANGED nonFn

\* The clock advances, up to the bound `max`.
Tick(max) ==
    /\ now < max
    /\ now' = now + 1
    /\ UNCHANGED <<settings, fn, pc, nCalls, poolAll, cacheAll, au, rq>>

\* ------------------------------------------------------------------- Init
InitBase(sizes) ==
    /\ now = 0
    /\ settings \in Configs
    /\ pool_size \in sizes
    /\ agent_order = << >>
    /\ agents = << >>
    /\ agent_usage = << >>
    /\ agent_last_used = << >>
    /\ poolLock = NoTask
    /\ created = 0
    /\ retired = {}
    /\ acquired = << >>
    /\ peers = [t \in Tasks |-> {}]
    /\ pc = [t \in Tasks |-> "idle"]
    /\ pl = [t \in Tasks |-> NoLocals]
    /\ sweeper = [pc |-> "idle", current_time |-> 0, max_idle_time |-> 0]
    /\ nCalls = 0
    /\ cache = << >>
    /\ enabled = TRUE
    /\ cacheLock = NoTask
    /\ cl = [t \in Tasks |-> NoCacheLocals]
    /\ stored = << >>
    /\ cleared = {}
    /\ au = NoSession
    /\ rq = [t \in Tasks |-> NoRequest]

InitWith(sizes) == InitBase(sizes) /\ fn = NoCall

\* ------------------------------------------------- the pure functions
\* The calls of the functions, with their arguments.
FnCalls ==
    {[NoCall EXCEPT !.op = "sanitize_prompt", !.text = text] :
        text \in SanitizeTexts}
      \cup {[NoCall EXCEPT !.op = "validate_model_name", !.text = name] :
               name \in ModelNames}

InitFn == InitBase({GlobalPoolSize}) /\ fn \in FnCalls

NextFn ==
    \/ SanitizeCall
    \/ ValidateNameCall

SpecFn == InitFn /\ [][NextFn]_vars

\* ------------------------------------------------- the pool, called directly
NextPool ==
    \/ \E t \in Tasks, m \in ModelArgs : PoolCall(t, m)
    \/ \E t \in Tasks : GetAgentBody(t)
    \/ \E t \in Tasks : PoolReturn(t)
    \/ \E m \in IdleArgs : CleanupCall(m)
    \/ CleanupBody
    \/ Tick(MaxTime)

\* AgentPool(pool_size), line 18.
InitPool == InitWith(PoolSizes)

SpecPool == InitPool /\ [][NextPool]_vars

\* The pool with a task that asks for its statistics while the others
\* acquire and sweep.
StatsModels == { Some(<<"gpt", "-4o">>), Some(<<"llama">>) }

NextStats ==
    \/ \E t \in Tasks, m \in StatsModels : PoolCall(t, m)
    \/ \E t \in Tasks : GetAgentBody(t)
    \/ \E t \in Tasks : PoolReturn(t)
    \/ \E t \in StatsTasks : StatsCall(t)
    \/ \E t \in StatsTasks : StatsReturn(t)
    \/ \E m \in IdleArgs : CleanupCall(m)
    \/ CleanupBody
    \/ Tick(MaxTime)

SpecStats == InitPool /\ [][NextStats]_vars

\* ------------------------------------------------ the cache, called directly
NextCache ==
    \/ \E t \in CacheTasks, p \in CachePrompts, m \in CacheModels :
          CacheLookupCall(t, p, m)
    \/ \E t \in CacheTasks, p \in CachePrompts, m \in CacheModels,
          v \in CacheValues, ttl \in TtlArgs : CacheStoreCall(t, p, m, v, ttl)
    \/ \E t \in CacheTasks : CacheClearCall(t)
    \/ \E t \in CacheTasks : CacheCleanupCall(t)
    \/ \E t \in CacheTasks : MemoryCacheGet(t)
    \/ \E t \in CacheTasks : MemoryCacheSet(t)
    \/ \E t \in CacheTasks : MemoryCacheClear(t)
    \/ \E t \in CacheTasks : MemoryCacheCleanup(t)
    \/ \E t \in CacheTasks : CacheReturn(t)
    \/ \E b \in BOOLEAN : SetEnabled(b)
    \/ Tick(MaxCacheTime)

\* Stores and sweeps of the cache by tasks that interleave at the cache lock
\* (the handlers of performance.py line 180 and of the prompt requests,
\* simple_agent.py lines 62-64).
SweepTasks == {1, 2}

\* The ttl arguments of the stores: the default, one already past, one ahead.
SweepTtls == {None, Some(-1), Some(1)}

NextSweep ==
    \/ \E t \in SweepTasks, p \in CachePrompts, m \in CacheModels,
          v \in CacheValues, ttl \in SweepTtls : CacheStoreCall(t, p, m, v, ttl)
    \/ \E t \in SweepTasks : CacheCleanupCall(t)
    \/ \E t \in SweepTasks : MemoryCacheSet(t)
    \/ \E t \in SweepTasks : MemoryCacheCleanup(t)
    \/ \E t \in SweepTasks : CacheReturn(t)
    \/ Tick(MaxCacheTime)

\* The global instances: agent_pool (agent_pool.py line 112) and
\* cache_service (cache_service.py line 148).
Init == InitWith({GlobalPoolSize})

SpecCache == Init /\ [][NextCache]_vars

SpecSweep == Init /\ [][NextSweep]_vars

\* ------------------------------------- the authentication functions, called
\* directly and through POST /auth/login and GET /auth/me
NextAuth ==
    \/ \E u \in Usernames, p \in Passwords : Login(u, p)
    \/ \E sub \in Subjects, d \in DeltaArgs : CreateToken(sub, d)
    \/ \E tok \in ForgedTokens : Forge(tok)
    \/ VerifyToken
    \/ \E send \in BOOLEAN : GetMe(send)
    \/ Tick(MaxAuthTime)

SpecAuth == Init /\ [][NextAuth]_vars

\* ----------------------------- the application serving prompt and
\* conversation requests
Next ==
    \/ \E t \in Clients, e \in Endpoints, a \in HttpCredentials :
          Receive(t, e, a)
    \/ \E t \in Clients : Authenticate(t)
    \/ \E t \in Clients, body \in AllBodies : Validate(t, body)
    \/ \E t \in Clients : PromptStart(t)
    \/ \E t \in Clients : ConversationStart(t)
    \/ \E t \in Clients : MemoryCacheGet(t)
    \/ \E t \in Clients : CacheChecked(t)
    \/ \E t \in Clients : GetAgentBody(t)
    \/ \E t \in Clients : Acquired(t)
    \/ \E t \in Clients, err \in ProviderErrors : ProviderFails(t, err)
    \/ \E t \in Clients, o \in ProviderOutputs : ProviderReturns(t, o)
    \/ \E t \in Clients : MemoryCacheSet(t)
    \/ \E t \in Clients : Stored(t)
    \/ Tick(MaxTime)

Spec == Init /\ [][Next]_vars

\* ------------------------- requests with maintenance calls, fairly scheduled
\* A task whose request has been answered goes on to ask for the cache to
\* be cleared (POST /performance/cache/clear, performance.py lines 160-170)
\* or swept (POST /performance/cache/cleanup, lines 173-183).
CacheClearRequest(t) ==
    /\ rq[t].stage = "responded"
    /\ CacheClearCall(t)

CacheCleanupRequest(t) ==
    /\ rq[t].stage = "responded"
    /\ CacheCleanupCall(t)

\* The maintenance call of task t has returned.
MaintenanceReturn(t) ==
    /\ cl[t].op \in {"clear", "cleanup"}
    /\ CacheReturn(t)

\* The requests of the liveness check carry a valid token; their model is
\* one whose key is configured or one whose key is not.
LiveCredentials ==
    { Some(jwt_encode([sub |-> StrSub("admin"), exp |-> MaxTime + 1], "secret-key")) }

LiveBodies ==
    { b \in AllBodies :
        /\ b.model \in {Some(<<"gpt", "-4o">>), Some(<<"claude", "-3">>)}
        /\ b.options = NoOptions }

LiveOutputs == { "answer" }

\* The threshold of the pool sweeps: the clock stands still in this
\* specification, so a sweep with threshold 0 would remove nothing; one with
\* a negative threshold removes every handle.
LiveIdleArgs == {-1}

LiveErrors == { "timeout" }

\* The steps of the request or maintenance call task t is running.
TaskStep(t) ==
    \/ Authenticate(t)
    \/ \E body \in LiveBodies : Validate(t, body)
    \/ PromptStart(t)
    \/ ConversationStart(t)
    \/ MemoryCacheGet(t)
    \/ CacheChecked(t)
    \/ GetAgentBody(t)
    \/ Acquired(t)
    \/ \E err \in LiveErrors : ProviderFails(t, err)
    \/ \E o \in LiveOutputs : ProviderReturns(t, o)
    \/ MemoryCacheSet(t)
    \/ Stored(t)
    \/ MemoryCacheClear(t)
    \/ MemoryCacheCleanup(t)
    \/ MaintenanceReturn(t)

NextLive ==
    \/ \E t \in Clients, e \in Endpoints, a \in LiveCredentials :
          Receive(t, e, a)
    \/ \E t \in Clients : Authenticate(t)
    \/ \E t \in Clients, body \in LiveBodies : Validate(t, body)
    \/ \E t \in Clients : PromptStart(t)
    \/ \E t \in Clients : ConversationStart(t)
    \/ \E t \in Clients : MemoryCacheGet(t)
    \/ \E t \in Clients : CacheChecked(t)
    \/ \E t \in Clients : GetAgentBody(t)
    \/ \E t \in Clients : Acquired(t)
    \/ \E t \in Clients, err \in LiveErrors : ProviderFails(t, err)
    \/ \E t \in Clients, o \in LiveOutputs : ProviderReturns(t, o)
    \/ \E t \in Clients : MemoryCacheSet(t)
    \/ \E t \in Clients : Stored(t)
    \/ \E t \in Clients : CacheClearRequest(t)
    \/ \E t \in Clients : CacheCleanupRequest(t)
    \/ \E t \in Clients : MemoryCacheClear(t)
    \/ \E t \in Clients : MemoryCacheCleanup(t)
    \/ \E t \in Clients : MaintenanceReturn(t)
    \/ \E m \in LiveIdleArgs : CleanupCall(m)
    \/ CleanupBody

\* The event loop runs every task that is ready (asyncio keeps the ready
\* callbacks and the waiters of a lock in first-in first-out order), and
\* every provider call returns or raises.
Fairness ==
    /\ \A t \in Clients : WF_vars(TaskStep(t))
    /\ WF_vars(CleanupBody)

SpecLive == Init /\ [][NextLive]_vars /\ Fairness

\* ------------------------------ requests on a pool that two requests fill
\* The capacity of the global pool (agent_pool.py line 112), scaled down to
\* one handle.
SmallPoolSizes == {1}

\* Bodies whose models have their keys configured and give two pool keys.
UseBodies ==
    { b \in AllBodies :
        /\ b.model \in {None, Some(<<"gpt", "-4o">>)}
        /\ b.options = NoOptions }

InitUse == InitWith(SmallPoolSizes)

NextUse ==
    \/ \E t \in Clients, e \in Endpoints, a \in LiveCredentials :
          Receive(t, e, a)
    \/ \E t \in Clients : Authenticate(t)
    \/ \E t \in Clients, body \in UseBodies : Validate(t, body)
    \/ \E t \in Clients : PromptStart(t)
    \/ \E t \in Clients : ConversationStart(t)
    \/ \E t \in Clients : MemoryCacheGet(t)
    \/ \E t \in Clients : CacheChecked(t)
    \/ \E t \in Clients : GetAgentBody(t)
    \/ \E t \in Clients : Acquired(t)
    \/ \E t \in Clients, err \in LiveErrors : ProviderFails(t, err)
    \/ \E t \in Clients, o \in LiveOutputs : ProviderReturns(t, o)
    \/ \E t \in Clients : MemoryCacheSet(t)
    \/ \E t \in Clients : Stored(t)
    \/ \E m \in IdleArgs : CleanupCall(m)
    \/ CleanupBody
    \/ Tick(MaxTime)

SpecUse == InitUse /\ [][NextUse]_vars

\* C1: after any interleaving of get_agent and cleanup_unused_agents calls,
\* for any model keys, the pool never holds more than pool_size agents.
C1_PoolWithinCapacity == Cardinality(DOMAIN agents) <= pool_size

\* A full pool of two agents after a third key was acquired (one eviction).
C1_Witness ==
    /\ pool_size = 2
    /\ Cardinality(DOMAIN agents) = 2
    /\ created = 3
    /\ Cardinality(retired) = 1

Holding(t) == pc[t] = "ga_ret" /\ pl[t].agent # NoAgent

\* C2, as stated: requests that concurrently acquire the same key while it
\* is not in the pool all receive the same agent (one agent is constructed
\* for them).
C2_ConcurrentAcquireSameAgent ==
    \A t \in Tasks : \A u \in peers[t] :
        (Holding(t) /\ Holding(u)) => pl[t].agent = pl[u].agent

\* C2, amended: no agent is pooled under two keys; an agent that was handed
\* out and has not been evicted or swept is the one agent pooled for its
\* key; so requests concurrently acquiring the same absent key receive
\* different agents only if one of the two was evicted or swept in between.
C2_OneAgentPerKeyWhilePooled ==
    /\ \A k1 \in PoolKeys : \A k2 \in PoolKeys :
          agents[k1] = agents[k2] => k1 = k2
    /\ \A t \in Tasks :
          (Holding(t) /\ pl[t].agent \notin retired) =>
              /\ pl[t].agent_key \in PoolKeys
              /\ agents[pl[t].agent_key] = pl[t].agent
    /\ \A t \in Tasks : \A u \in peers[t] :
          (Holding(t) /\ Holding(u) /\ pl[t].agent # pl[u].agent) =>
              (pl[t].agent \in retired \/ pl[u].agent \in retired)

\* Two requests that acquired the same absent key concurrently hold the
\* same, still pooled agent.
C2_Witness ==
    \E t \in Tasks : \E u \in peers[t] :
        /\ Holding(t) /\ Holding(u)
        /\ pl[t].agent = pl[u].agent
        /\ pl[t].agent \notin retired

\* A lookup ends in this step: MemoryCache.get returns, or the disabled
\* service answers at once.
LookupDone(t) == pc[t] # "c_ret" /\ pc'[t] = "c_ret" /\ cl'[t].op = "get"

LookupInCache(t) == pc[t] = "cg_lock" /\ pc'[t] = "c_ret"

\* C3: a lookup returns the stored value only when expiry > now; an entry
\* at or after its expiry is deleted and the lookup returns None; an absent
\* key gives None and leaves the cache alone.
C3_LookupNeverStale ==
    [][\A t \in Tasks :
        /\ LookupDone(t) /\ cl'[t].result # None =>
              /\ LookupInCache(t)
              /\ cl'[t].key \in DOMAIN cache
              /\ cache[cl'[t].key].expires > now
        /\ LookupInCache(t) =>
              LET k == cl[t].key
              IN  /\ k \notin DOMAIN cache =>
                        cl'[t].result = None /\ cache' = cache
                  /\ (k \in DOMAIN cache /\ cache[k].expires > now) =>
                        cl'[t].result = Some(cache[k].value) /\ cache' = cache
                  /\ (k \in DOMAIN cache /\ cache[k].expires <= now) =>
                        cl'[t].result = None /\ cache' = Drop(cache, {k})
      ]_vars

\* A lookup found its key expired, deleted the entry and returned None.
C3_Witness ==
    \E t \in Tasks :
        /\ pc[t] = "c_ret" /\ cl[t].op = "get" /\ cl[t].result = None
        /\ cl[t].key \in DOMAIN stored
        /\ cl[t].key \notin DOMAIN cache
        /\ now >= stored[cl[t].key].due

\* C4: with the cache enabled and no store, clear or sweep for the key in
\* between, a lookup after store(k, v, ttl) at instant t0 returns v strictly
\* before t0 + ttl and None from t0 + ttl on, for every ttl (the default ttl
\* when none is given).
C4_StoreThenLookup ==
    [][\A t \in Tasks :
        (LookupInCache(t) /\ cl[t].key \in DOMAIN stored) =>
            cl'[t].result = IF now < stored[cl[t].key].due
                            THEN Some(stored[cl[t].key].value)
                            ELSE None
      ]_vars

\* C5: after clear() no key that was in the cache is in it again before a
\* later store of that key, and every lookup of such a key returns None,
\* whether the cache is enabled or not.
C5_ClearedStaysAbsent ==
    [][/\ cleared' \cap DOMAIN cache' = {}
       /\ \A t \in Tasks :
            (LookupDone(t) /\ cl'[t].key \in cleared) => cl'[t].result = None
      ]_vars

\* A key that was stored and cleared has been looked up, with the cache
\* enabled, and the lookup returned None.
C5_Witness ==
    \E t \in Tasks :
        /\ pc[t] = "c_ret" /\ cl[t].op = "get" /\ cl[t].result = None
        /\ cl[t].key \in cleared
        /\ enabled

\* This step is a call `op` of the authentication client.
AuthCall(op) == nCalls' = nCalls + 1 /\ au'.out.op = op

CorrectlySigned(token) ==
    token.form = "jwt" /\ token.sig = Signature(token.claims, settings.SECRET_KEY)

C7_OnlyAdminSubjectAccepted ==
    [][(AuthCall("me") /\ au'.out.sent) =>
          LET token == au.token[1]
              admin == StrSub(settings.ADMIN_USERNAME)
          IN  /\ au'.out.status = 200 => token.claims.sub = admin
              /\ au'.out.ran => au'.out.status = 200
              /\ (/\ CorrectlySigned(token)
                  /\ now < token.claims.exp
                  /\ token.claims.sub # admin) =>
                    (au'.out.status = 401 /\ ~au'.out.ran /\ au'.out.user = None)
      ]_vars

\* GET /auth/me refused a correctly signed, unexpired token whose subject is
\* another user name.
C7_Witness ==
    /\ au.out.op = "me" /\ au.out.sent /\ au.out.status = 401 /\ ~au.out.ran
    /\ CorrectlySigned(au.token[1])
    /\ now < au.token[1].claims.exp
    /\ au.token[1].claims.sub = StrSub("bob")

\* C8: for every expires_delta passed to create_access_token at instant t,
\* verify_token returns no token data at every instant at or after
\* t + expires_delta.
C8_RejectedFromExpiryOn ==
    [][(/\ AuthCall("verify")
        /\ au.origin = "create"
        /\ au.delta # None
        /\ now >= au.made + au.delta[1]) => au'.out.td = None
      ]_vars

\* The dependency answers request t in this step, or lets it through.
AuthStep(t) == rq[t].stage = "security" /\ rq'[t].stage # "security"

\* A token that is malformed (no JWT), invalid (not signed with the secret
\* key, or its subject is not the admin user name) or expired (the clock is
\* past its exp claim).
BadToken(token) ==
    \/ token.form # "jwt"
    \/ ~CorrectlySigned(token)
    \/ token.claims.sub # StrSub(settings.ADMIN_USERNAME)
    \/ token.claims.exp < now

\* C9: a request to an authenticated endpoint without credentials is
\* answered 403, one with a malformed, invalid or expired token is answered
\* 401; such a request reaches neither the handler's validation, nor the
\* cache, nor the pool, nor the provider, and leaves cache and pool as
\* they are.
C9_UnauthenticatedStopsAtDependency ==
    [][\A t \in Clients :
        /\ AuthStep(t) =>
              LET a == rq[t].authorization
              IN  /\ a = None => rq'[t].status = 403
                  /\ (a # None /\ BadToken(a[1])) => rq'[t].status = 401
                  /\ rq'[t].status \in {401, 403} =>
                        /\ rq'[t].stage = "responded"
                        /\ UNCHANGED <<cache, poolVars, pc, pl, cl>>
        /\ rq'[t].status \in {401, 403} =>
              /\ rq'[t].stage = "responded"
              /\ rq'[t].log = <<"security">>
              /\ rq'[t].agent = NoAgent
      ]_vars

\* A request carrying an expired token of the admin user was answered 401
\* at the dependency.
C9_Witness ==
    \E t \in Clients :
        /\ rq[t].stage = "responded" /\ rq[t].status = 401
        /\ rq[t].log = <<"security">>
        /\ rq[t].authorization # None
        /\ CorrectlySigned(rq[t].authorization[1])
        /\ rq[t].authorization[1].claims.sub = StrSub(settings.ADMIN_USERNAME)
        /\ rq[t].authorization[1].claims.exp < now

\* C10: an authenticated POST /agent/prompt or /agent/conversation whose
\* model field is given and fails validate_model_name is answered 400 by the
\* handler's check, before any cache lookup, agent acquisition or provider
\* call, the cache and the pool being left unchanged.
C10_InvalidModelAnswered400 ==
    [][\A t \in Clients :
        (/\ rq[t].stage = "handler" /\ rq'[t].stage # "handler"
         /\ rq'[t].model # None
         /\ ~validate_model_name(rq'[t].model[1])) =>
            /\ rq'[t].stage = "responded"
            /\ rq'[t].status = 400
            /\ UNCHANGED <<cache, poolVars, pc, pl, cl>>
      ]_vars

\* The handler's validation of the request of task t takes place.
ValidateStep(t) == rq[t].stage = "handler" /\ rq'[t].stage # "handler"

\* C11: an authenticated POST /agent/conversation with an empty messages
\* list and a valid or absent model is answered 400 with the message "At
\* least one message is required"; no agent is acquired and the provider is
\* not invoked for it, cache and pool staying as they are.
C11_EmptyConversationAnswered400 ==
    [][\A t \in Clients :
        /\ (/\ ValidateStep(t)
            /\ rq[t].endpoint = "conversation"
            /\ rq'[t].messages = << >>
            /\ \/ rq'[t].model = None
               \/ validate_model_name(rq'[t].model[1])) =>
              /\ rq'[t].stage = "responded"
              /\ rq'[t].status = 400
              /\ rq'[t].detail = <<"At least one message is required">>
              /\ UNCHANGED <<cache, poolVars, pc, pl, cl>>
        /\ rq'[t].detail = <<"At least one message is required">> =>
              /\ rq'[t].stage = "responded"
              /\ rq'[t].log = <<"security", "validation">>
              /\ rq'[t].agent = NoAgent
      ]_vars

\* A conversation request with model gpt-4o and no message was answered 400
\* with that message.
C11_Witness ==
    \E t \in Clients :
        /\ rq[t].stage = "responded" /\ rq[t].status = 400
        /\ rq[t].endpoint = "conversation"
        /\ rq[t].messages = << >>
        /\ rq[t].model = Some(<<"gpt", "-4o">>)
        /\ rq[t].detail = <<"At least one message is required">>

\* The stages of a prompt request that misses the cache, in order.
MissPath == <<"security", "validation", "cache", "pool", "provider", "store">>

\* The stages of a prompt request served from the cache.
HitPath == <<"security", "validation", "cache">>

IsPrefix(a, b) == Len(a) <= Len(b) /\ SubSeq(b, 1, Len(a)) = a

\* The cache lookup of the prompt request of task t has returned and the
\* request goes on.
CacheCheckedStep(t) == rq[t].stage = "cache_check" /\ rq'[t].stage # "cache_check"

\* C12: a prompt request goes through validation, cache check, agent
\* acquisition, provider call and cache store in that order; on a cache hit
\* it is answered at once with the cached response, no agent being acquired,
\* the provider not being invoked and the cache not being written; on a
\* miss it goes on to acquire an agent; a request answered 200 took the
\* whole hit path or the whole miss path; and a cache entry is created or
\* changed only by the store of a request whose provider call returned.
C12_PromptFlowOrder ==
    [][/\ \A t \in Clients :
            rq'[t].endpoint = "prompt" =>
              /\ IsPrefix(rq'[t].log, MissPath)
              /\ rq'[t].status = 200 => rq'[t].log \in {HitPath, MissPath}
              /\ (CacheCheckedStep(t) /\ cl[t].result # None) =>
                    /\ rq'[t].stage = "responded"
                    /\ rq'[t].status = 200
                    /\ rq'[t].output = cl[t].result[1].response
                    /\ rq'[t].log = HitPath
                    /\ rq'[t].agent = NoAgent
                    /\ UNCHANGED <<cache, poolVars>>
              /\ (CacheCheckedStep(t) /\ cl[t].result = None) =>
                    /\ rq'[t].stage = "acquire"
                    /\ UNCHANGED <<cache, poolVars>>
       /\ \A k \in DOMAIN cache' :
            (k \notin DOMAIN cache \/ cache'[k] # cache[k]) =>
              \E t \in Clients :
                  /\ rq[t].endpoint = "prompt"
                  /\ rq[t].stage = "store"
                  /\ rq[t].log = MissPath
                  /\ RequestKey(t) = k
                  /\ cache'[k].value.response = rq[t].output
      ]_vars

\* One prompt request took the miss path and stored the response; a second
\* one was answered that response from the cache.
C12_Witness ==
    \E t, u \in Clients :
        /\ rq[t].endpoint = "prompt" /\ rq[u].endpoint = "prompt"
        /\ rq[t].status = 200 /\ rq[t].log = MissPath
        /\ rq[u].status = 200 /\ rq[u].log = HitPath
        /\ rq[u].output = rq[t].output

\* C13: a conversation request is looked up in the response cache before an
\* agent is acquired for it, and a conversation request answered with the
\* provider's response has stored that response in the cache.
C13_ConversationUsesCache ==
    \A t \in Clients :
        rq[t].endpoint = "conversation" =>
          /\ Reached(t, "pool") => Reached(t, "cache")
          /\ (rq[t].status = 200 /\ Reached(t, "provider")) =>
                Reached(t, "store")

\* C14: a request whose agent acquisition or provider call failed is
\* answered 500 with a body that does not depend on the original error: two
\* requests to the same endpoint that both ended in such a failure carry
\* the same body.
C14_GenericBodyOn500 ==
    \A t, u \in Clients :
        (/\ rq[t].status = 500 /\ rq[u].status = 500
         /\ rq[t].endpoint = rq[u].endpoint) =>
            rq[t].detail = rq[u].detail

\* The number of provider calls made for the request of task t.
ProviderCalls(r) == Cardinality({i \in 1..Len(r.log) : r.log[i] = "provider"})

\* C15: the provider is invoked at most once for a request; when the call
\* fails the request is answered with an error in that very step, the cache
\* staying as it is, and an answered request takes no further step: there
\* is no retry and no later store.
C15_ProviderFailureTerminal ==
    [][\A t \in Clients :
        /\ ProviderCalls(rq'[t]) <= 1
        /\ (rq[t].stage = "provider" /\ rq'[t] # rq[t]
            /\ rq'[t].stage # "store" /\ rq'[t].status # 200) =>
              /\ rq'[t].stage = "responded"
              /\ rq'[t].status = 500
              /\ ~ \E i \in 1..Len(rq'[t].log) : rq'[t].log[i] = "store"
              /\ cache' = cache
        /\ rq[t].stage = "responded" => rq'[t] = rq[t]
      ]_vars

\* A prompt request whose provider call failed was answered 500; the cache
\* holds nothing under its key.
C15_Witness ==
    \E t \in Clients :
        /\ rq[t].endpoint = "prompt"
        /\ rq[t].stage = "responded" /\ rq[t].status = 500
        /\ ProviderCalls(rq[t]) = 1
        /\ RequestKey(t) \notin DOMAIN cache

\* C16: while the provider call of a request is in flight the request's
\* task holds neither the pool lock nor the cache lock and is inside no
\* call of the pool or the cache; the locked sections of the pool and the
\* cache are run for a request only before its provider call has started
\* or after it has returned.
C16_NoLockAcrossProviderCall ==
    [][\A t \in Clients :
        /\ rq'[t].stage = "provider" =>
              /\ poolLock' # t
              /\ cacheLock' # t
              /\ pc'[t] = "idle"
        /\ (pc[t] \in {"ga_lock", "cg_lock", "cs_lock"} /\ pc'[t] # pc[t]) =>
              /\ rq[t].stage \in {"cache_check", "acquire", "store"}
              /\ rq[t].stage = "store" => Reached(t, "provider")
              /\ rq[t].stage # "store" => ~Reached(t, "provider")
      ]_vars

\* The provider calls of two requests are in flight at once: each request
\* went through the pool lock while the other was under way.
C16_Witness ==
    /\ rq[1].stage = "provider" /\ rq[2].stage = "provider"
    /\ rq[1].endpoint = "prompt" /\ rq[2].endpoint = "conversation"
    /\ poolLock = NoTask /\ cacheLock = NoTask

\* The locked body of the cache store of the prompt request of task t runs.
StoreStep(t) ==
    rq[t].stage = "store" /\ pc[t] = "cs_lock" /\ pc'[t] = "c_ret"

\* C17: nothing shares a provider call between requests: a prompt request
\* that missed the cache goes on to its own agent acquisition and provider
\* call also while another request for the same key is under way, and the
\* store of a request puts its own response under the key, replacing what
\* an earlier request stored there, so that the cache holds the response
\* stored last.
C17_NoSingleFlight ==
    [][\A t \in Clients :
        /\ (CacheCheckedStep(t) /\ cl[t].result = None) =>
              rq'[t].stage = "acquire"
        /\ StoreStep(t) =>
              /\ RequestKey(t) \in DOMAIN cache'
              /\ cache'[RequestKey(t)].value.response = rq[t].output
              /\ DOMAIN cache' = DOMAIN cache \cup {RequestKey(t)}
      ]_vars

\* Two prompt requests for the same key both missed the cache, both called
\* the provider and got different responses, and both stored; the cache
\* holds the response of the second.  The clock has not advanced, so that no
\* entry has expired: the second lookup came before the first store.
C17_Witness ==
    /\ now = 0
    /\ rq[1].endpoint = "prompt" /\ rq[2].endpoint = "prompt"
    /\ rq[1].status = 200 /\ rq[2].status = 200
    /\ rq[1].log = MissPath /\ rq[2].log = MissPath
    /\ RequestKey(1) = RequestKey(2)
    /\ rq[1].output = "answer" /\ rq[2].output = "other answer"
    /\ RequestKey(2) \in DOMAIN cache
    /\ cache[RequestKey(2)].value.response = "other answer"

\* Task t calls the cache service operation `op`.
CacheCallStep(t, op) == pc[t] = "idle" /\ pc'[t] # "idle" /\ cl'[t].op = op

\* C18: a lookup called while the cache is disabled returns None and a
\* store called while it is disabled returns at once, both leaving the map
\* as it is; clear and the sweep of expired entries go to their locked
\* bodies and do there what they do when the cache is enabled; disabling
\* and enabling leave the map as it is, so that a lookup called once the
\* cache is enabled again returns an entry stored before that has not
\* expired.
C18_DisabledMode ==
    [][\A t \in CacheTasks :
        /\ (CacheCallStep(t, "get") /\ ~enabled) =>
              pc'[t] = "c_ret" /\ cl'[t].result = None /\ cache' = cache
        /\ (CacheCallStep(t, "set") /\ ~enabled) =>
              pc'[t] = "c_ret" /\ cache' = cache
        /\ CacheCallStep(t, "get") /\ enabled => pc'[t] = "cg_lock"
        /\ CacheCallStep(t, "clear") => pc'[t] = "cc_lock"
        /\ CacheCallStep(t, "cleanup") =>
              pc'[t] = "ce_lock" /\ cl'[t].expires = now
        /\ (pc[t] = "cc_lock" /\ pc'[t] = "c_ret") => cache' = << >>
        /\ (pc[t] = "ce_lock" /\ pc'[t] = "c_ret") =>
              cache' = Drop(cache, {k \in DOMAIN cache :
                                      cache[k].expires <= cl[t].expires})
        /\ enabled' # enabled => cache' = cache
        /\ (pc[t] = "cg_lock" /\ pc'[t] = "c_ret"
            /\ cl[t].key \in DOMAIN cache
            /\ cache[cl[t].key].expires > now) =>
              cl'[t].result = Some(cache[cl[t].key].value)
      ]_vars

\* A lookup called while the cache was disabled returned None although the
\* map holds an entry for the key that has not expired.
C18_Witness ==
    \E t \in CacheTasks :
        /\ ~enabled
        /\ pc[t] = "c_ret" /\ cl[t].op = "get" /\ cl[t].result = None
        /\ cl[t].key \in DOMAIN cache
        /\ cache[cl[t].key].expires > now

\* The locked body of get_agent runs for task t.
AcquireStep(t) == pc[t] = "ga_lock" /\ pc'[t] # "ga_lock"

\* C19: when the locked body of acquire runs for a key that is not in the
\* pool while the pool is full, exactly one entry is removed, its last-used
\* time is the minimum over all entries, the new handle is inserted with
\* usage count 1, every other entry is unchanged, and the pool size equals
\* the capacity afterwards.
C19_EvictsOneLeastRecentlyUsed ==
    [][\A t \in Tasks :
        (/\ AcquireStep(t)
         /\ pl[t].agent_key \notin PoolKeys
         /\ Cardinality(PoolKeys) >= pool_size) =>
            \E k \in PoolKeys :
                /\ \A j \in PoolKeys : agent_last_used[k] <= agent_last_used[j]
                /\ DOMAIN agents' = (PoolKeys \ {k}) \cup {pl[t].agent_key}
                /\ DOMAIN agent_usage' = DOMAIN agents'
                /\ DOMAIN agent_last_used' = DOMAIN agents'
                /\ agents'[pl[t].agent_key] = created'
                /\ created' = created + 1
                /\ pl'[t].agent = created'
                /\ agent_usage'[pl[t].agent_key] = 1
                /\ agent_last_used'[pl[t].agent_key] = now
                /\ \A j \in PoolKeys \ {k} :
                      /\ agents'[j] = agents[j]
                      /\ agent_usage'[j] = agent_usage[j]
                      /\ agent_last_used'[j] = agent_last_used[j]
                /\ Cardinality(DOMAIN agents') = pool_size
      ]_vars

\* The locked body of cleanup_unused_agents runs.
SweepStep == sweeper.pc = "cu_lock" /\ sweeper'.pc = "idle"

\* The entries of the keys in S are what they were.
EntriesKept(S) ==
    \A k \in S :
        /\ agents'[k] = agents[k]
        /\ agent_usage'[k] = agent_usage[k]
        /\ agent_last_used'[k] = agent_last_used[k]

\* C20, as stated: the sweep removes exactly the handles whose idle time,
\* now minus last-used at the moment the sweep modifies the pool, exceeds
\* the threshold.
C20_SweepByIdleAtModification ==
    [][SweepStep =>
          DOMAIN agents' =
              {k \in PoolKeys : now - agent_last_used[k] <= sweeper.max_idle_time}
      ]_vars

\* C20, amended: the sweep removes exactly the handles whose last-used
\* time, as it is when the sweep modifies the pool, lies more than the
\* threshold before the instant the sweep read the clock, which is when it
\* was called; the other entries are unchanged; every removed handle has an
\* idle time above the threshold at the moment of the modification, and a
\* handle that passes the threshold only between the clock read and the
\* modification stays.
C20_SweepByIdleAtCall ==
    [][SweepStep =>
          LET kept == {k \in PoolKeys :
                         sweeper.current_time - agent_last_used[k]
                             <= sweeper.max_idle_time}
          IN  /\ DOMAIN agents' = kept
              /\ DOMAIN agent_usage' = kept
              /\ DOMAIN agent_last_used' = kept
              /\ EntriesKept(kept)
              /\ \A k \in PoolKeys \ kept :
                    now - agent_last_used[k] > sweeper.max_idle_time
              /\ sweeper.current_time <= now
      ]_vars

\* A sweep with threshold 0 has removed the handle acquired first and kept
\* the one acquired at the instant the sweep read the clock.
C20_Witness ==
    /\ sweeper.pc = "idle" /\ sweeper.max_idle_time = 0
    /\ pool_size = 2 /\ created = 2
    /\ retired = {1}
    /\ \E k \in PoolKeys :
          agents[k] = 2 /\ agent_last_used[k] = sweeper.current_time

\* The messages of the configuration errors validate_api_key raises for a
\* provider whose key is not set.
KeyNotConfigured ==
    { <<"Gemini API key not configured">>,
      <<"OpenAI API key not configured">>,
      <<"Anthropic API key not configured">> }

\* C21: acquire fails only with the configuration error of a missing API
\* key, raised at the call before the pool lock is taken, the pool being
\* left unchanged; once the locked body runs, acquire returns a handle,
\* whatever the capacity and the content of the pool.
C21_AcquireFailsOnlyOnMissingKey ==
    [][\A t \in Tasks :
        /\ (pc[t] # "ga_raise" /\ pc'[t] = "ga_raise") =>
              /\ pc[t] = "idle"
              /\ pl'[t].err \in KeyNotConfigured
              /\ UNCHANGED poolVars
        /\ AcquireStep(t) =>
              /\ pc'[t] = "ga_ret"
              /\ pl'[t].agent # NoAgent
      ]_vars

\* The text holds an HTML tag: a '<' followed later by a '>'.
HasTag(text) ==
    \E i \in 1..Len(text) : \E j \in (i + 1)..Len(text) :
        text[i] = "<" /\ text[j] = ">"

\* The text holds the marker [INST] or the marker [/INST].
HasInst(text) ==
    \/ \E i \in 1..(Len(text) - 2) :
          text[i] = "[" /\ text[i + 1] = "INST" /\ text[i + 2] = "]"
    \/ \E i \in 1..(Len(text) - 3) :
          /\ text[i] = "[" /\ text[i + 1] = "/"
          /\ text[i + 2] = "INST" /\ text[i + 3] = "]"

\* The words of a text, in order.
Words(text) ==
    SelectSeq(text, LAMBDA a : a \in {"a", "hello", "Hello", "world", "script"})

\* The text holds nothing a pattern deletes and is short enough.
Plain(text) ==
    /\ \A i \in 1..Len(text) :
          text[i] \in {"a", "hello", "Hello", "world", "script", " ", "/"}
    /\ TextLen(text) <= MaxPromptLength

\* C22: the output of sanitize_prompt holds no HTML tag and neither the
\* marker [INST] nor the marker [/INST], and the words of a text outside of
\* what is removed are kept, in order.
C22_SanitizedHasNoMarker ==
    (fn.op = "sanitize_prompt" /\ fn.done) =>
        /\ ~HasTag(fn.out)
        /\ ~HasInst(fn.out)
        /\ Plain(fn.text) => Words(fn.out) = Words(fn.text)

\* C23: validate_model_name accepts a name exactly when it is not empty, has
\* at most 100 characters and holds only letters, digits, hyphens,
\* underscores and dots; every other name, such as one with a slash, a
\* space, a colon or a newline, is rejected.
C23_ModelNameAllowList ==
    (fn.op = "validate_model_name" /\ fn.done) =>
        (fn.ok <=> /\ fn.text # << >>
                   /\ NameLen(fn.text) <= MaxModelNameLen
                   /\ \A i \in 1..Len(fn.text) : AllowedToken(fn.text[i]))

\* The pair a prompt request's cache key is meant to be a function of.
KeyPair(t) ==
    <<Sanitized[rq[t].messages[1]], ModelNameOrDefault(rq[t].model)>>

\* Task t has a prompt request whose cache key has been computed.
Keyed(t) == rq[t].endpoint = "prompt" /\ rq[t].key # << >>

\* Task t was answered from the cache: 200 without a pool acquire.
ServedFromCache(t) ==
    /\ rq[t].endpoint = "prompt"
    /\ rq[t].stage = "responded" /\ rq[t].status = 200
    /\ rq[t].log = HitPath

\* C24: the cache key of a prompt request is a function of the pair
\* (sanitized message, model or "default") and of nothing else: two requests
\* have the same key exactly when they have the same pair, whatever their
\* temperature, max_tokens, system_prompt and context are; a request answered
\* from the cache gets the response another request with the same pair
\* stored; and the text sent to the provider is the sanitized message the
\* key was computed from.
C24_KeyOfSanitizedMessageAndModel ==
    /\ \A t \in Clients : \A u \in Clients :
          (Keyed(t) /\ Keyed(u)) =>
              (rq[t].key = rq[u].key <=> KeyPair(t) = KeyPair(u))
    /\ \A t \in Clients :
          ServedFromCache(t) =>
              \E u \in Clients \ {t} :
                  /\ Reached(u, "store")
                  /\ KeyPair(u) = KeyPair(t)
                  /\ rq[u].output = rq[t].output
    /\ \A t \in Clients :
          (rq[t].endpoint = "prompt" /\ Reached(t, "provider")) =>
              rq[t].key = PromptKey(rq[t].sent, ModelNameOrDefault(rq[t].model))

\* A prompt request missed the cache, called the provider with the sanitized
\* message and stored the response; a second request whose raw message,
\* model field and other fields all differ, but whose sanitized message and
\* model name are the same, was answered that response from the cache.
C24_Witness ==
    /\ rq[1].endpoint = "prompt" /\ rq[1].stage = "responded"
    /\ rq[1].log = MissPath /\ rq[1].status = 200
    /\ rq[1].sent = <<"hello">>
    /\ ServedFromCache(2)
    /\ rq[1].messages # rq[2].messages
    /\ rq[1].model # rq[2].model
    /\ rq[1].options # rq[2].options
    /\ rq[2].output = rq[1].output

\* C25: when the locked body of acquire runs for a key that is in the pool,
\* it returns the pooled handle, adds exactly 1 to that key's usage count,
\* sets its last-used time to the current time, and changes nothing else:
\* no handle is constructed or evicted, and the other entries keep their
\* handles, counts and times.
C25_ExistingKeyBumpedOnly ==
    [][\A t \in Tasks :
        (AcquireStep(t) /\ pl[t].agent_key \in PoolKeys) =>
            /\ pc'[t] = "ga_ret"
            /\ pl'[t].agent = agents[pl[t].agent_key]
            /\ agent_usage' =
                 [agent_usage EXCEPT ![pl[t].agent_key] = @ + 1]
            /\ agent_last_used' =
                 [agent_last_used EXCEPT ![pl[t].agent_key] = now]
            /\ UNCHANGED <<agents, agent_order, created, retired>>
      ]_vars

\* A task has just been handed the pooled handle of a key of a full pool of
\* two: the key has been acquired twice at least and was last used now, the
\* other key once and earlier, and nothing was evicted.
C25_Witness ==
    \E t \in Tasks :
        /\ pc[t] = "ga_ret" /\ pl[t].hit
        /\ pool_size = 2 /\ Cardinality(PoolKeys) = 2
        /\ retired = {}
        /\ pl[t].agent_key \in PoolKeys
        /\ agents[pl[t].agent_key] = pl[t].agent
        /\ agent_usage[pl[t].agent_key] >= 2
        /\ agent_last_used[pl[t].agent_key] = now
        /\ \E k \in PoolKeys \ {pl[t].agent_key} :
              agent_usage[k] = 1 /\ agent_last_used[k] < now

\* The locked body of cleanup_expired runs for task t.
SweepExpiredStep(t) == pc[t] = "ce_lock" /\ pc'[t] = "c_ret"

\* C26, as stated: the sweep removes exactly the entries whose expiry is at
\* or before the instant at which it modifies the cache, and leaves the
\* others unchanged.
C26_SweepByExpiryAtModification ==
    [][\A t \in SweepTasks :
        SweepExpiredStep(t) =>
            /\ DOMAIN cache' = {k \in DOMAIN cache : cache[k].expires > now}
            /\ \A k \in DOMAIN cache' : cache'[k] = cache[k]
      ]_vars

\* C26, amended: the sweep removes exactly the entries, as they are when it
\* modifies the cache, whose expiry is at or before the instant the sweep
\* read the clock, which is when it was called; every other entry keeps its
\* value and its expiry; every removed entry has expired at the moment of
\* the modification, and an entry that expires only between the clock read
\* and the modification stays; stores may run between the two.
C26_SweepByExpiryAtCall ==
    [][\A t \in SweepTasks :
        SweepExpiredStep(t) =>
            /\ DOMAIN cache' =
                 {k \in DOMAIN cache : cache[k].expires > cl[t].expires}
            /\ \A k \in DOMAIN cache' : cache'[k] = cache[k]
            /\ \A k \in DOMAIN cache \ DOMAIN cache' : cache[k].expires <= now
            /\ cl[t].expires <= now
      ]_vars

\* A sweep has just run while another task's store was still in progress:
\* the entry that task stored, whose expiry equals the instant the sweep read
\* the clock, is gone, and an entry with a later expiry is still there.
C26_Witness ==
    \E t \in SweepTasks : \E u \in SweepTasks \ {t} :
        /\ pc[t] = "c_ret" /\ cl[t].op = "cleanup"
        /\ pc[u] = "c_ret" /\ cl[u].op = "set"
        /\ cl[u].key \notin DOMAIN cache
        /\ cl[u].expires = cl[t].expires
        /\ \E k \in DOMAIN cache : cache[k].expires > cl[t].expires

\* The set of the elements of a sequence.
Range(seq) == {seq[i] : i \in 1..Len(seq)}

\* C27: the statistics get_stats returns describe one pool state, also when
\* acquires and a sweep are in progress: the reported size is the number of
\* reported keys, no key is reported twice, the usage counts and the idle
\* durations are reported for exactly the reported keys, no idle duration is
\* negative, and the reported size is at most the reported capacity.
C27_StatsConsistent ==
    \A t \in Tasks :
        pc[t] = "gs_ret" =>
            LET s == pl[t].stats
            IN  /\ s.pool_size = Len(s.agents)
                /\ Cardinality(Range(s.agents)) = Len(s.agents)
                /\ DOMAIN s.usage_stats = Range(s.agents)
                /\ DOMAIN s.last_used = Range(s.agents)
                /\ \A k \in DOMAIN s.last_used : s.last_used[k] >= 0
                /\ s.pool_size <= s.max_pool_size

\* Statistics of a pool that holds one handle, used one time unit ago, taken
\* while another task has called acquire and waits for the lock and a sweep
\* has read the clock and waits for the lock.
C27_Witness ==
    \E t \in Tasks : \E u \in Tasks \ {t} :
        /\ pc[t] = "gs_ret"
        /\ pl[t].stats.pool_size = 1
        /\ \E k \in DOMAIN pl[t].stats.last_used :
              pl[t].stats.last_used[k] = 1 /\ pl[t].stats.usage_stats[k] = 1
        /\ pc[u] = "ga_lock"
        /\ sweeper.pc = "cu_lock"

\* C28: in every reachable state the maps of agents, of usage counts and of
\* last-used times have the same keys, and the usage count of every key is
\* at least 1 and is the number of calls of acquire that returned the key's
\* agent since that agent was inserted.
C28_MapsAgreeAndCountAcquires ==
    /\ DOMAIN agent_usage = DOMAIN agents
    /\ DOMAIN agent_last_used = DOMAIN agents
    /\ DOMAIN acquired = DOMAIN agents
    /\ \A k \in DOMAIN agents :
          agent_usage[k] >= 1 /\ agent_usage[k] = acquired[k]

\* A pool of capacity one whose first key was evicted for a second key, and
\* the second key was then acquired again: its count is 2.
C28_Witness ==
    /\ pool_size = 1
    /\ retired # {}
    /\ \E k \in DOMAIN agents : agent_usage[k] = 2 /\ acquired[k] = 2

\* Task t waits for the cache lock.
WaitsForCache(t) == pc[t] \in {"cg_lock", "cs_lock", "cc_lock", "ce_lock"}

\* Task t waits for the pool lock.
WaitsForPool(t) == pc[t] = "ga_lock"

\* No task holds both locks, or waits for one of them holding the other.
LocksApart ==
    \A t \in Tasks :
        /\ ~(poolLock = t /\ cacheLock = t)
        /\ ~(poolLock = t /\ WaitsForCache(t))
        /\ ~(cacheLock = t /\ WaitsForPool(t))

\* The request of task t has passed validation and has no response yet.
InService(t) ==
    rq[t].stage \in {"service", "cache_check", "acquire", "provider", "store"}

\* C29: no task ever holds the pool lock and the cache lock together or
\* waits for one of them while it holds the other; and, the tasks being
\* scheduled fairly and every provider call returning or raising, every
\* request that passed validation is eventually answered, with a response or
\* an error, while other requests, pool sweeps, cache sweeps and cache
\* clears run concurrently.
C29_NoDeadlockAndEveryRequestAnswered ==
    /\ []LocksApart
    /\ \A t \in Clients : InService(t) ~> (rq[t].stage = "responded")

\* A prompt request was answered after a miss, a provider call and a store
\* while the other request is still in service, a cache clear has run, and
\* a pool sweep waits for the lock.
C29_Witness ==
    /\ rq[1].stage = "responded" /\ rq[1].status = 200
    /\ rq[1].log = MissPath
    /\ InService(2)
    /\ cleared # {}
    /\ sweeper.pc = "cu_lock"

\* The provider call of the request of task t is in flight.
InUse(t) == rq[t].stage = "provider"

\* The handles the provider calls in flight are using.
HandlesInUse == {rq[t].agent : t \in {u \in Clients : InUse(u)}}

\* C30: the pool never holds more handles than its capacity, and a handle
\* handed to a request stays with the request whatever happens to the pool:
\* while the provider call is in flight the request keeps the handle it
\* acquired, also when an eviction or a sweep removes that handle from the
\* pool, and the provider call can still return and the request go on to
\* its response.
C30_HandleOutlivesPoolEntry ==
    [][\A t \in Clients :
        /\ Cardinality(DOMAIN agents') <= pool_size
        /\ InUse(t) =>
              /\ rq[t].agent # NoAgent
              /\ ENABLED ProviderReturns(t, "answer")
              /\ rq'[t].agent = rq[t].agent
              /\ rq'[t].stage \in {"provider", "store", "responded"}
      ]_vars

\* Two provider calls are in flight on a pool of capacity one: the handle of
\* the first request was evicted by the acquire of the second and the handle
\* of the second was removed by the one sweep that has run, so that two
\* handles are in use and the pool is empty.
C30_Witness ==
    /\ pool_size = 1
    /\ InUse(1) /\ InUse(2)
    /\ Cardinality(HandlesInUse) = 2
    /\ HandlesInUse \subseteq retired
    /\ DOMAIN agents = {}
    /\ sweeper.pc = "idle" /\ nCalls = 1
====
